---- MODULE Spec2Model ----
(***************************************************************************)
(* Unreal Engine Plugin Builder: the Discovery Engine                      *)
(* (source/backend/engine_finder.py) and the Build Orchestrator            *)
(* (source/backend/plugin_builder.py) together with the parts of the main  *)
(* window (source/frontend/main_window.py) that drive them.                *)
(***************************************************************************)
EXTENDS Integers, Sequences, FiniteSets, TLC

VARIABLES
    \* ---- Discovery Engine -------------------------------------------------
    config_file,    \* EngineFinder.config_file: the configured config path
    configStore,    \* content of the config file on disk
    fs,             \* per candidate path: the installation items present on disk
    cfgDirWritable, \* os.access(dirname(config_file), W_OK) for a real directory
    cfgFileWritable,\* os.access(config_file, W_OK)
    hashOrder,      \* iteration order of list(all_paths) in this process
    found_engines,  \* EngineFinder.found_engines
    lastCall,       \* observation of the find_all_engines call just made

    \* ---- Build Orchestrator and main window -------------------------------
    process,        \* PluginBuilder.process: 0 = None, else the build's QProcess
    procState,      \* QProcess.state() of that handle
    osAlive,        \* builds whose external process is alive in the OS
    exitPending,    \* exit code of the handle's process, not yet dispatched by Qt
    button,         \* mode of MainWindow.build_button: "build" or "abort"
    dialogOpen,     \* the cancel confirmation QMessageBox is showing
    output_folder,  \* PluginBuilder.output_folder
    launchedFolder, \* the output_folder argument of the build_plugin call that
                    \* launched the process of the current handle
    dirs,           \* output directories that exist on disk
    events,         \* signals of PluginBuilder.signals since the current build
                    \* was launched, in order
    chunks,         \* stdout chunks delivered for the current handle
    cancelPc,       \* position inside PluginBuilder.cancel_build
    killsPending,   \* taskkill commands spawned and not yet returned
    cancelLog,      \* steps cancel_build has performed in the current call
    lastRet,        \* what the cancel_build call just made returned:
                    \* "True", "False", or None when none has returned

    \* ---- Command construction, output classification, descriptor --------
    pbFields,       \* PluginBuilder.source_plugin_path, output_folder,
                    \* target_engine_path and additional_params, as strings
    existing,       \* the paths that exist on disk, as lists of segments
    request,        \* the call the program is about to make, with its arguments
    lastOp,         \* observation of the PluginBuilder call just made

    \* ---- Main window and its discovery threads ----------------------------
    appPc,          \* position of the primary thread: "off", "start" (before
                    \* main() has run), "running" (in the event loop), "dialog"
                    \* (inside ManualEngineEntryDialog.exec), "crashed"
    threads,        \* per discovery thread: its position and the dict it holds
    objects,        \* the dict objects created so far: who created each and
                    \* what it maps; a dict is referred to by its index
    found_ref,      \* the dict EngineFinder.found_engines refers to, 0 for the
                    \* constructor's {}
    eventQueue,     \* EnginesFoundEvents posted and not yet handled, each the
                    \* dict it carries
    engine_paths,   \* the dict MainWindow.engine_paths refers to, 0 before the
                    \* window exists
    target_version_combo, \* items of MainWindow.target_version_combo, in order
    posted,         \* the dicts that have been posted in an event
    stepBy          \* the thread that took the last step: 0 the primary thread

finderVars == <<config_file, configStore, fs, cfgDirWritable, cfgFileWritable,
                hashOrder, found_engines, lastCall>>

builderVars == <<process, procState, osAlive, exitPending, button, dialogOpen,
                 output_folder, launchedFolder, dirs, events, chunks, cancelPc,
                 killsPending, cancelLog, lastRet>>

commandVars == <<pbFields, existing, request, lastOp>>

windowVars == <<appPc, threads, objects, found_ref, eventQueue, engine_paths,
                target_version_combo, posted, stepBy>>

vars == <<finderVars, builderVars, commandVars, windowVars>>

None == "None"

(***************************************************************************)
(* Strings.  A string is a sequence of pieces: path segments, separators,  *)
(* option names and punctuation, so that normalisation, slash replacement, *)
(* stripping and joining are computed as the code computes them.           *)
(***************************************************************************)
Separators == {"/", "\\"}

\* the components of a path: what lies between separators, "." left out
RECURSIVE Segments(_)
Segments(s) ==
    IF s = <<>> THEN <<>>
    ELSE IF Head(s) \in Separators \cup {"."} THEN Segments(Tail(s))
    ELSE <<Head(s)>> \o Segments(Tail(s))

\* sep.join(items) for a list of strings
RECURSIVE Join(_, _)
Join(items, sep) ==
    IF items = <<>> THEN <<>>
    ELSE IF Len(items) = 1 THEN items[1]
    ELSE items[1] \o <<sep>> \o Join(Tail(items), sep)

\* os.path.normpath on Windows: redundant separators and "." components
\* removed, every separator a backslash
normpath(s) == Join([i \in 1..Len(Segments(s)) |-> <<Segments(s)[i]>>], "\\")

\* os.path.join(base, *names)
os_path_join(base, names) ==
    Join(<<base>> \o [i \in 1..Len(names) |-> <<names[i]>>], "\\")

\* os.path.dirname: the part before the last separator, "" without one
os_path_dirname(s) ==
    LET seps == {i \in 1..Len(s) : s[i] \in Separators}
    IN  IF seps = {} THEN <<>>
        ELSE SubSeq(s, 1, (CHOOSE i \in seps : \A j \in seps : j <= i) - 1)

\* os.path.exists(s) on the disk given
os_path_exists(s, disk) == s # <<>> /\ Segments(s) \in disk

\* directories of the disk that may not be written to
ReadOnlyDirs == {<<"C:", "Locked">>}

\* os.access(d, os.W_OK)
os_access_w(d, disk) == os_path_exists(d, disk) /\ Segments(d) \notin ReadOnlyDirs

\* value.replace("\\", "/")
replace_backslashes(s) == [i \in 1..Len(s) |-> IF s[i] = "\\" THEN "/" ELSE s[i]]

\* the components of a path whose names are made of several pieces: the runs
\* of pieces between separators, empty runs and "." left out
RECURSIVE Components(_, _)
Components(s, run) ==
    LET done == IF run = <<>> \/ run = <<".">> THEN <<>> ELSE <<run>>
    IN  IF s = <<>> THEN done
        ELSE IF Head(s) \in Separators THEN done \o Components(Tail(s), <<>>)
        ELSE Components(Tail(s), Append(run, Head(s)))

\* os.path.normpath on Windows for such a path
os_path_normpath(s) == Join(Components(s, <<>>), "\\")

\* os.path.basename: the part after the last separator
os_path_basename(s) ==
    LET seps == {i \in 1..Len(s) : s[i] \in Separators}
    IN  IF seps = {} THEN s
        ELSE SubSeq(s, (CHOOSE i \in seps : \A j \in seps : j <= i) + 1, Len(s))

\* the pieces that are a file extension
Extensions == {".uplugin", ".zip"}

\* os.path.splitext(s)[0]
os_path_splitext_root(s) ==
    IF s # <<>> /\ Len(s) > 1 /\ s[Len(s)] \in Extensions /\ s[Len(s) - 1] \notin Separators
    THEN SubSeq(s, 1, Len(s) - 1)
    ELSE s

\* s.split('_')[0]
RECURSIVE split_underscore_first(_)
split_underscore_first(s) ==
    IF s = <<>> \/ Head(s) = "_" THEN <<>>
    ELSE <<Head(s)>> \o split_underscore_first(Tail(s))

\* os.path.join(a, b) for a relative b
os_path_join2(a, b) ==
    IF a = <<>> THEN b
    ELSE IF a[Len(a)] \in Separators THEN a \o b
    ELSE a \o <<"\\">> \o b

(***************************************************************************)
(* Paths are sequences of segments; the separator is not modelled.         *)
(***************************************************************************)
P53C == <<"C:", "Epic Games", "UE_5.3">>
P53D == <<"D:", "Epic Games", "UE_5.3">>
P427 == <<"C:", "Epic Games", "UE_4.27">>
PUnreal == <<"E:", "Unreal">>

Paths == {P53C, P53D, P427, PUnreal}

Versions == {"5.3", "4.27", "5.1"}

EmptyMap == [v \in {} |-> PUnreal]

\* A mapping {version: path}: a function from a set of versions to paths.
Mappings == UNION {[D -> Paths] : D \in SUBSET Versions}

Drives == {"C:", "D:", "E:"}

\* os.path.dirname: the path without its last segment; a drive root is its own
\* parent and a bare file name has the empty parent "".
dirname(p) ==
    IF Len(p) = 0 \/ (Len(p) = 1 /\ p[1] \in Drives)
    THEN p
    ELSE SubSeq(p, 1, Len(p) - 1)

(***************************************************************************)
(* Filesystem: the items of an installation that are present under a path. *)
(***************************************************************************)
RunUAT == "Engine/Build/BatchFiles/RunUAT.bat"
UnrealEditor == "Engine/Binaries/Win64/UnrealEditor.exe"
UE4Editor == "Engine/Binaries/Win64/UE4Editor.exe"
ContentDir == "Engine/Content"
PluginsDir == "Engine/Plugins"
SourceDir == "Engine/Source"
BuildVersion == "Engine/Build/Build.version"

FullInstall == {RunUAT, UnrealEditor, ContentDir, PluginsDir, SourceDir}
Incomplete == {RunUAT, UnrealEditor, ContentDir, PluginsDir}

\* os.path.exists(path): a path with no item under it is absent.
PathExists(p) == p \in DOMAIN fs /\ fs[p] # {}

\* os.path.exists(os.path.join(path, "Engine")): every item lies under Engine.
EngineDirExists(p) == p \in DOMAIN fs /\ fs[p] # {}

\* variant: the editor executables are not looked for
is_valid_engine_path_NoEditor(p) ==
    IF p \notin DOMAIN fs \/ RunUAT \notin fs[p]
    THEN FALSE
    ELSE {ContentDir, PluginsDir, SourceDir} \subseteq fs[p]

is_valid_engine_path(p) ==
    IF p \notin DOMAIN fs \/ RunUAT \notin fs[p]
    THEN FALSE
    ELSE LET has_editor == UnrealEditor \in fs[p] \/ UE4Editor \in fs[p]
             dirs_exist == {ContentDir, PluginsDir, SourceDir} \subseteq fs[p]
         IN  has_editor /\ dirs_exist

(***************************************************************************)
(* Discovery sources.  The registry, the environment and the standard      *)
(* directories list candidate paths in a fixed enumeration order; which of *)
(* them are hits depends on the filesystem.                                *)
(***************************************************************************)
RegistryEntries == <<P427, P53C>>
EnvValues == <<PUnreal, P53D>>
StandardSubdirs == <<P53C, P53D>>

\* any(engine_name in var for engine_name in POSSIBLE_ENGINE_NAMES)
HasEngineName(p) ==
    \E i \in 1..Len(p) : p[i] \in {"UE_5.3", "UE_4.27", "Unreal"}

find_unreal_in_registry ==
    SelectSeq(RegistryEntries, LAMBDA p : PathExists(p) /\ is_valid_engine_path(p))

find_unreal_in_env_vars ==
    SelectSeq(EnvValues,
              LAMBDA p : HasEngineName(p) /\ PathExists(p) /\ is_valid_engine_path(p))

find_unreal_in_standard_paths ==
    SelectSeq(StandardSubdirs, LAMBDA p : is_valid_engine_path(p))

Range(s) == {s[i] : i \in 1..Len(s)}

\* What can go wrong inside a discovery source:
\*   registry_denied   winreg.OpenKey raises PermissionError (only
\*                     FileNotFoundError is caught)
\*   standard_denied   os.listdir of the base C:/Epic Games raises
\*                     PermissionError (caught, logged as a warning)
\*   standard_oserror  os.listdir of that base raises another OSError, such as
\*                     NotADirectoryError (not caught)
SourceFaults == {"none", "registry_denied", "standard_denied", "standard_oserror"}

\* the standard base whose enumeration fails
FailingBase == <<"C:", "Epic Games">>

\* the hits of the standard paths when the enumeration of a base fails: the
\* subdirectories of that base are not looked at
standard_hits(fault) ==
    SelectSeq(find_unreal_in_standard_paths,
              LAMBDA p : ~(fault = "standard_denied" /\ dirname(p) = FailingBase))

\* a log_message of EngineFinder.signals: level, message key, path it names
FinderLog(level, msg, about) == [level |-> level, msg |-> msg, about |-> about]

\* self.log(success_msg, "SUCCESS") for every hit of a source
HitLogs(hits, msg) == [i \in 1..Len(hits) |-> FinderLog("SUCCESS", msg, hits[i])]

\* the log events of find_unreal_in_registry
registry_logs(hits) ==
    <<FinderLog("INFO", "log_engines_search_start", <<>>)>>
    \o HitLogs(hits, "log_engine_found_registry")
    \o (IF hits = <<>>
        THEN <<FinderLog("INFO", "log_engine_not_found_registry", <<>>)>>
        ELSE <<>>)

\* the log events of find_unreal_in_env_vars
env_logs(hits) ==
    <<FinderLog("INFO", "checking_environment_variables", <<>>)>>
    \o HitLogs(hits, "log_engine_found_env")
    \o (IF hits = <<>>
        THEN <<FinderLog("INFO", "log_engine_not_found_env", <<>>)>>
        ELSE <<>>)

\* the log events of find_unreal_in_standard_paths: the bases are visited in
\* the order of STANDARD_PATHS, C:/Epic Games before D:/Epic Games
standard_logs(hits, fault) ==
    <<FinderLog("INFO", "searching_standard_paths", <<>>)>>
    \o (IF fault = "standard_denied"
        THEN <<FinderLog("WARNING", "error_accessing", FailingBase)>>
        ELSE <<>>)
    \o HitLogs(hits, "log_engine_found_standard")
    \o (IF hits = <<>>
        THEN <<FinderLog("INFO", "log_engine_not_found_standard", <<>>)>>
        ELSE <<>>)

\* a path as a list of one-piece strings
Pieces(p) == [i \in 1..Len(p) |-> <<p[i]>>]

\* install_path as the registry holds it: the native spelling
RegistryText(p) == Join(Pieces(p), "\\")

\* the value of the environment variable, as the user has set it
EnvText(p) == IF p = PUnreal THEN Join(Pieces(p), "\\") ELSE Join(Pieces(p), "/")

\* os.path.join(base_path, subdir) for a base of STANDARD_PATHS
StandardText(p) == os_path_join(Join(Pieces(dirname(p)), "/"), <<p[Len(p)]>>)

\* a candidate: the string a source appended and the path it names
Cand(path, text) == [path |-> path, text |-> text]

(***************************************************************************)
(* extract_version_from_path                                               *)
(***************************************************************************)
\* re.search(r'UE_?(\d+\.\d+)', segment)
SegmentVersion(s) ==
    CASE s = "UE_5.3" -> "5.3"
      [] s = "UE_4.27" -> "4.27"
      [] OTHER -> None

\* the leftmost match of the pattern in the path
version_match(p) ==
    LET hits == {i \in 1..Len(p) : SegmentVersion(p[i]) # None}
    IN  IF hits = {} THEN None
        ELSE SegmentVersion(p[CHOOSE i \in hits : \A j \in hits : i <= j])

\* "Engine" in engine_path
ContainsEngine(p) == \E i \in 1..Len(p) : p[i] = "Engine"

\* MajorVersion.MinorVersion of the Build.version file under the path
BuildVersionContent(p) == "5.1"

extract_version_from_path(p) ==
    LET engine_path ==
            IF ~EngineDirExists(p) /\ ContainsEngine(p)
            THEN dirname(dirname(p)) ELSE p
        m == version_match(engine_path)
    IN  IF m # None THEN m
        ELSE IF engine_path \in DOMAIN fs /\ BuildVersion \in fs[engine_path]
             THEN BuildVersionContent(engine_path)
             ELSE None

(***************************************************************************)
(* Config store                                                            *)
(***************************************************************************)
CONFIG_FILE == <<"unreal_engines_config.json">>
AppConfigFile == <<"~", "AppData", "Local", "UnrealPluginBuilder",
                   "unreal_engines_config.json">>

AbsentConfig == [kind |-> "absent", engines |-> EmptyMap]
ConfigOf(m) == [kind |-> "object", engines |-> m]

\* os.access(config_dir, os.W_OK): the empty path "" names no directory.
DirAccess(d) == d # <<>> /\ cfgDirWritable

\* save_config: the store after the call, the value returned and the event
\* logged.
save_config(engines_data, io_error) ==
    LET config_dir == dirname(config_file)
    IN  IF ~DirAccess(config_dir)
        THEN [store |-> configStore, ok |-> FALSE,
              log |-> FinderLog("ERROR", "no_write_permission_dir", <<>>)]
        ELSE IF configStore.kind # "absent" /\ ~cfgFileWritable
        THEN [store |-> configStore, ok |-> FALSE,
              log |-> FinderLog("ERROR", "no_write_permission_file", <<>>)]
        ELSE IF io_error
        THEN [store |-> configStore, ok |-> FALSE,
              log |-> FinderLog("ERROR", "error_saving", <<>>)]
        ELSE [store |-> ConfigOf(engines_data), ok |-> TRUE,
              log |-> FinderLog("INFO", "paths_saved", <<>>)]

\* a config file that does not hold {"unreal_engines": {...}}: text that is
\* not JSON, a JSON array, an object whose unreal_engines is a non-empty list
MalformedConfigs ==
    {[kind |-> k, engines |-> EmptyMap] : k \in {"unparseable", "array", "bad_value"}}

\* the AttributeError that escapes: config_data.get on a list in load_config,
\* saved_engines.items() on a list in find_all_engines (only JSONDecodeError
\* is caught)
load_raises == configStore.kind \in {"array", "bad_value"}

\* variant: the mapping is looked up under a key the file does not hold
load_config_WrongKey == EmptyMap

\* load_config: config_data.get("unreal_engines", {}), {} when the file is absent
load_config ==
    IF configStore.kind = "object" THEN configStore.engines ELSE EmptyMap

(***************************************************************************)
(* _process_found_paths                                                    *)
(***************************************************************************)
normalized_path(p) == IF ~EngineDirExists(p) THEN dirname(dirname(p)) ELSE p

RECURSIVE ProcessPaths(_, _)
ProcessPaths(paths, result) ==
    IF paths = <<>> THEN result
    ELSE LET path == Head(paths)
             version == extract_version_from_path(path)
             next == IF version # None
                     THEN [v \in DOMAIN result \cup {version} |->
                              IF v = version THEN normalized_path(path)
                              ELSE result[v]]
                     ELSE result
         IN  ProcessPaths(Tail(paths), next)

\* normalized_path as the string the code stores: the candidate's own text,
\* or its grandparent when no Engine directory lies under it
normalized_text(c) ==
    IF ~EngineDirExists(c.path) THEN os_path_dirname(os_path_dirname(c.text))
    ELSE c.text

\* the loop of _process_found_paths over the strings: result[version] is the
\* text of the last candidate with that version
RECURSIVE ProcessTexts(_, _)
ProcessTexts(cands, stored) ==
    IF cands = <<>> THEN stored
    ELSE LET c == Head(cands)
             version == extract_version_from_path(c.path)
             next == IF version # None
                     THEN [v \in DOMAIN stored \cup {version} |->
                              IF v = version THEN normalized_text(c)
                              ELSE stored[v]]
                     ELSE stored
         IN  ProcessTexts(Tail(cands), next)

\* the log events of the loop: one SUCCESS for every candidate with a
\* version, nothing for a candidate without one
RECURSIVE ProcessLogs(_)
ProcessLogs(cands) ==
    IF cands = <<>> THEN <<>>
    ELSE LET c == Head(cands)
             version == extract_version_from_path(c.path)
         IN  (IF version # None
              THEN <<FinderLog("SUCCESS", "found_engine_version",
                               normalized_path(c.path))>>
              ELSE <<>>) \o ProcessLogs(Tail(cands))

\* variant: the mapping is saved even when it is empty
process_found_paths_AlwaysSave(paths, cands, io_error) ==
    LET result == ProcessPaths(paths, EmptyMap)
        saved == save_config(result, io_error)
    IN  [result |-> result, store |-> saved.store, saved |-> saved.ok,
         found |-> result, stored |-> ProcessTexts(cands, EmptyMap),
         logs |-> ProcessLogs(cands) \o <<saved.log>>]

\* the mapping built, the store after the call, whether it was saved, the
\* strings stored and the events logged
process_found_paths(paths, cands, io_error) ==
    LET result == ProcessPaths(paths, EmptyMap)
        saved == save_config(result, io_error)
    IN  IF result # EmptyMap
        THEN [result |-> result, store |-> saved.store, saved |-> saved.ok,
              found |-> result, stored |-> ProcessTexts(cands, EmptyMap),
              logs |-> ProcessLogs(cands) \o <<saved.log>>]
        ELSE [result |-> result, store |-> configStore, saved |-> FALSE,
              found |-> found_engines, stored |-> EmptyMap,
              logs |-> ProcessLogs(cands)]

\* list(all_paths): the elements of the set in this process's iteration order
SetToList(S) == SelectSeq(hashOrder, LAMBDA p : p \in S)

(***************************************************************************)
(* find_all_engines                                                        *)
(***************************************************************************)
NoCall == [op |-> "none", force |-> FALSE, stop |-> FALSE, cfgRead |-> FALSE,
           queried |-> <<>>, result |-> EmptyMap, saved |-> FALSE,
           ioError |-> FALSE, cfgBefore |-> AbsentConfig,
           prevSaved |-> EmptyMap, raised |-> FALSE, fault |-> "none",
           processed |-> <<>>, stored |-> EmptyMap, scanLogs |-> <<>>]

\* the mapping the call before this one wrote to the store from a fresh scan
\* (the empty mapping when the step before was not such a call)
JustSaved ==
    IF lastCall.op = "find" /\ lastCall.saved THEN lastCall.result ELSE EmptyMap

\* variant: the saved mapping is trusted without revalidation
valid_engines_NoRevalidation(saved_engines) == saved_engines

\* the entries of the saved mapping whose path exists and validates
valid_engines(saved_engines) ==
    LET keep == {v \in DOMAIN saved_engines :
                    PathExists(saved_engines[v])
                    /\ is_valid_engine_path(saved_engines[v])}
    IN  [v \in keep |-> saved_engines[v]]

\* the strings under which the sources have put path p into all_paths, in
\* this process's iteration order
Spellings(p, registry_paths, env_paths, standard_paths) ==
    LET texts == (IF p \in Range(registry_paths) THEN <<RegistryText(p)>> ELSE <<>>)
                 \o (IF p \in Range(env_paths) THEN <<EnvText(p)>> ELSE <<>>)
                 \o (IF p \in Range(standard_paths) THEN <<StandardText(p)>>
                     ELSE <<>>)
    IN  IF hashOrder[1] = P53C THEN texts
        ELSE [i \in 1..Len(texts) |-> texts[Len(texts) + 1 - i]]

\* list(all_paths) as the list of strings it is
RECURSIVE CandList(_, _, _, _)
CandList(paths, registry_paths, env_paths, standard_paths) ==
    IF paths = <<>> THEN <<>>
    ELSE LET p == Head(paths)
             texts == Spellings(p, registry_paths, env_paths, standard_paths)
         IN  [i \in 1..Len(texts) |-> Cand(p, texts[i])]
             \o CandList(Tail(paths), registry_paths, env_paths, standard_paths)

\* variant: the later sources are queried even after a hit
stops_after_NoShortCircuit(stop_on_first, hits) == FALSE

\* stop_on_first and <source>_paths
stops_after(stop_on_first, hits) == stop_on_first /\ hits # <<>>

\* steps 2-5: the sources queried, in order, the paths and the strings handed
\* to _process_found_paths (<<>> when nothing was found), the events logged by
\* the sources, and whether an exception left a source
fresh_scan(stop_on_first, fault) ==
    LET registry_paths == find_unreal_in_registry
        env_paths == find_unreal_in_env_vars
        standard_paths == standard_hits(fault)
        all_paths == Range(registry_paths) \cup Range(env_paths)
                        \cup Range(standard_paths)
        upto_env == registry_logs(registry_paths) \o env_logs(env_paths)
        upto_standard == upto_env \o standard_logs(standard_paths, fault)
    IN  IF fault = "registry_denied"
        THEN [queried |-> <<"registry">>, paths |-> <<>>, cands |-> <<>>,
              logs |-> <<FinderLog("INFO", "log_engines_search_start", <<>>)>>,
              raised |-> TRUE]
        ELSE IF stops_after(stop_on_first, registry_paths)
        THEN [queried |-> <<"registry">>, paths |-> <<registry_paths[1]>>,
              cands |-> <<Cand(registry_paths[1], RegistryText(registry_paths[1]))>>,
              logs |-> registry_logs(registry_paths), raised |-> FALSE]
        ELSE IF stops_after(stop_on_first, env_paths)
        THEN [queried |-> <<"registry", "env">>, paths |-> <<env_paths[1]>>,
              cands |-> <<Cand(env_paths[1], EnvText(env_paths[1]))>>,
              logs |-> upto_env, raised |-> FALSE]
        ELSE IF fault = "standard_oserror"
        THEN [queried |-> <<"registry", "env", "standard">>, paths |-> <<>>,
              cands |-> <<>>,
              logs |-> upto_env
                       \o <<FinderLog("INFO", "searching_standard_paths", <<>>)>>,
              raised |-> TRUE]
        ELSE IF stops_after(stop_on_first, standard_paths)
        THEN [queried |-> <<"registry", "env", "standard">>,
              paths |-> <<standard_paths[1]>>,
              cands |-> <<Cand(standard_paths[1], StandardText(standard_paths[1]))>>,
              logs |-> upto_standard, raised |-> FALSE]
        ELSE [queried |-> <<"registry", "env", "standard">>,
              paths |-> SetToList(all_paths),
              cands |-> CandList(SetToList(all_paths), registry_paths, env_paths,
                                 standard_paths),
              logs |-> upto_standard, raised |-> FALSE]

\* variant: the config store is consulted even on a forced rescan
reads_config_Always(force_rescan) == TRUE

\* whether the call consults the config store
reads_config(force_rescan) == ~force_rescan

\* fault: what goes wrong inside a source when the sources are queried
find_all_engines(stop_on_first, force_rescan, io_error, fault) ==
    LET cfgRead == reads_config(force_rescan)
        saved_engines == IF cfgRead THEN load_config ELSE EmptyMap
        valid == valid_engines(saved_engines)
        call == [op |-> "find", force |-> force_rescan, stop |-> stop_on_first,
                 cfgRead |-> cfgRead, queried |-> <<>>, result |-> EmptyMap,
                 saved |-> FALSE, ioError |-> io_error,
                 cfgBefore |-> configStore, prevSaved |-> JustSaved,
                 raised |-> FALSE, fault |-> "none", processed |-> <<>>,
                 stored |-> EmptyMap, scanLogs |-> <<>>]
    IN  IF cfgRead /\ load_raises
        THEN \* the exception leaves the call: nothing is returned
             /\ found_engines' = found_engines
             /\ configStore' = configStore
             /\ lastCall' = [call EXCEPT !.raised = TRUE]
        ELSE IF cfgRead /\ saved_engines # EmptyMap /\ valid # EmptyMap
        THEN \* 1. the surviving config entries, without a scan
             /\ found_engines' = valid
             /\ configStore' = configStore
             /\ lastCall' = [call EXCEPT !.result = valid]
        ELSE \* 2-5. the sources are queried: scan and done name the values
             \* of fresh_scan and _process_found_paths
             \E scan \in {fresh_scan(stop_on_first, fault)} :
             \E done \in {process_found_paths(scan.paths, scan.cands, io_error)} :
                IF scan.raised
                THEN \* the exception of a source leaves the call
                     /\ found_engines' = found_engines
                     /\ configStore' = configStore
                     /\ lastCall' = [call EXCEPT !.queried = scan.queried,
                                                 !.raised = TRUE, !.fault = fault,
                                                 !.scanLogs = scan.logs]
                ELSE IF scan.paths = <<>>
                THEN \* 5. nothing found
                     /\ found_engines' = found_engines
                     /\ configStore' = configStore
                     /\ lastCall' =
                            [call EXCEPT
                                !.queried = scan.queried, !.fault = fault,
                                !.scanLogs = scan.logs \o
                                    <<FinderLog("INFO", "quick_search_failed", <<>>),
                                      FinderLog("INFO", "manual_entry_required",
                                                <<>>)>>]
                ELSE /\ found_engines' = done.found
                     /\ configStore' = done.store
                     /\ lastCall' = [call EXCEPT !.queried = scan.queried,
                                                 !.result = done.result,
                                                 !.saved = done.saved,
                                                 !.fault = fault,
                                                 !.processed = scan.paths,
                                                 !.stored = done.stored,
                                                 !.scanLogs = scan.logs \o done.logs]

\* a call in which no source fails
FindAllEngines ==
    \E stop_on_first \in BOOLEAN, force_rescan \in BOOLEAN, io_error \in BOOLEAN :
        /\ find_all_engines(stop_on_first, force_rescan, io_error, "none")
        /\ UNCHANGED <<config_file, fs, cfgDirWritable, cfgFileWritable, hashOrder>>
        /\ UNCHANGED <<builderVars, commandVars, windowVars>>

(***************************************************************************)
(* Environment of the Discovery Engine                                     *)
(***************************************************************************)
\* what may be on disk under a candidate path
InstallShapes(p) ==
    IF p = PUnreal
    THEN {{}, FullInstall, FullInstall \cup {BuildVersion}}
    ELSE {FullInstall, Incomplete}

\* an installation is added, removed or damaged outside the program
FsChange ==
    \E p \in Paths : \E shape \in InstallShapes(p) :
        /\ shape # fs[p]
        /\ fs' = [fs EXCEPT ![p] = shape]
        /\ lastCall' = NoCall
        /\ UNCHANGED <<config_file, configStore, cfgDirWritable, cfgFileWritable,
                       hashOrder, found_engines>>
        /\ UNCHANGED <<builderVars, commandVars, windowVars>>

\* the mappings a user enters in the manual-entry dialog
ManualEntries ==
    {[v \in {"5.3"} |-> P53C], [v \in {"5.3"} |-> PUnreal],
     [v \in {"5.3", "4.27"} |-> IF v = "5.3" THEN P53D ELSE P427]}

\* MainWindow.update_engines_list / AdvancedOptionsDialog.add_unreal_engine:
\* the dialog's mapping is saved through save_config
ManualSave ==
    \E engines \in ManualEntries :
        /\ configStore' = save_config(engines, FALSE).store
        /\ configStore' # configStore
        /\ lastCall' = NoCall
        /\ UNCHANGED <<config_file, fs, cfgDirWritable, cfgFileWritable,
                       hashOrder, found_engines>>
        /\ UNCHANGED <<builderVars, commandVars, windowVars>>

\* the fields of a PluginBuilder just constructed: the three paths are None
\* and additional_params is {} (an unset path and "" are both written <<>>)
UnsetFields == [source_plugin_path |-> <<>>, output_folder |-> <<>>,
                target_engine_path |-> <<>>, additional_params |-> <<>>]

\* no plugin information: the None that extract_plugin_info returns
NoInfo == [k \in {} |-> <<>>]

\* no descriptor read
NoDescriptor == [kind |-> "none", obj |-> NoInfo]

NoOp == [op |-> "none", ret |-> None, signals |-> <<>>, command |-> <<>>,
         text |-> <<>>, program |-> <<>>, arguments |-> <<>>,
         before |-> {}, mkdirOk |-> TRUE, data |-> <<>>,
         descriptor |-> NoDescriptor, info |-> NoInfo,
         plugin |-> <<>>, sameDir |-> TRUE, output |-> <<>>]

\* no call to make
NoRequest == [op |-> "none", fields |-> UnsetFields, mkdirOk |-> TRUE,
              data |-> <<>>, descriptor |-> NoDescriptor,
              plugin |-> <<>>, version |-> "", sameDir |-> TRUE, customDir |-> <<>>]

IdleCommand ==
    /\ pbFields = UnsetFields
    /\ existing = {}
    /\ request = NoRequest
    /\ lastOp = NoOp

\* the config file is damaged or rewritten outside the program
CorruptConfig ==
    \E c \in MalformedConfigs :
        /\ c # configStore
        /\ configStore' = c
        /\ lastCall' = NoCall
        /\ UNCHANGED <<config_file, fs, cfgDirWritable, cfgFileWritable,
                       hashOrder, found_engines>>
        /\ UNCHANGED <<builderVars, commandVars, windowVars>>

HashOrders == {<<P53C, P53D, P427, PUnreal>>, <<PUnreal, P427, P53D, P53C>>}

\* discovery threads alive at once, and dicts created in one run
MaxWorkers == 2
MaxObjects == 4

\* the primary thread; the discovery threads are numbered from 1
MainThread == 0
Workers == 1..MaxWorkers

\* a thread that is not running
NoThread == [pc |-> "idle", force |-> FALSE, obj |-> 0]

\* the main window is not running
IdleWindow ==
    /\ appPc = "off"
    /\ threads = [w \in Workers |-> NoThread]
    /\ objects = <<>>
    /\ found_ref = 0
    /\ eventQueue = <<>>
    /\ engine_paths = 0
    /\ target_version_combo = <<>>
    /\ posted = {}
    /\ stepBy = MainThread

IdleBuilder ==
    /\ process = 0
    /\ procState = "NotRunning"
    /\ osAlive = {}
    /\ exitPending = None
    /\ button = "build"
    /\ dialogOpen = FALSE
    /\ output_folder = None
    /\ launchedFolder = None
    /\ dirs = {}
    /\ events = <<>>
    /\ chunks = 0
    /\ cancelPc = "idle"
    /\ killsPending = {}
    /\ cancelLog = <<>>
    /\ lastRet = None

InitFinder ==
    /\ config_file \in {CONFIG_FILE, AppConfigFile}
    /\ configStore \in {AbsentConfig, ConfigOf(EmptyMap)}
    /\ fs = [p \in Paths |-> IF p = PUnreal THEN {} ELSE FullInstall]
    /\ cfgDirWritable \in BOOLEAN
    /\ cfgFileWritable \in BOOLEAN
    /\ hashOrder \in HashOrders
    /\ found_engines = EmptyMap
    /\ lastCall = NoCall
    /\ IdleBuilder
    /\ IdleCommand
    /\ IdleWindow

NextFinder == FindAllEngines \/ FsChange \/ ManualSave \/ CorruptConfig

SpecFinder == InitFinder /\ [][NextFinder]_vars

(***************************************************************************)
(* The sources in detail: a discovery pass during which a source may fail, *)
(* with the events it logs and the strings it stores.                      *)
(***************************************************************************)
\* find_all_engines, called while a source may fail
ScanEngines ==
    \E stop_on_first \in BOOLEAN, force_rescan \in BOOLEAN, fault \in SourceFaults :
        /\ find_all_engines(stop_on_first, force_rescan, FALSE, fault)
        /\ UNCHANGED <<config_file, fs, cfgDirWritable, cfgFileWritable, hashOrder>>
        /\ UNCHANGED <<builderVars, commandVars, windowVars>>

InitScan ==
    /\ config_file = AppConfigFile
    /\ configStore = AbsentConfig
    /\ fs = [p \in Paths |-> IF p = PUnreal THEN {} ELSE FullInstall]
    /\ cfgDirWritable = TRUE
    /\ cfgFileWritable = TRUE
    /\ hashOrder \in HashOrders
    /\ found_engines = EmptyMap
    /\ lastCall = NoCall
    /\ IdleBuilder
    /\ IdleCommand
    /\ IdleWindow

NextScan == ScanEngines \/ FsChange \/ ManualSave

SpecScan == InitScan /\ [][NextScan]_vars

(***************************************************************************)
(* is_valid_engine_path over every combination of the six items it looks   *)
(* for, under the registry entry C:/Epic Games/UE_4.27.                    *)
(***************************************************************************)
InstallItems == {RunUAT, UnrealEditor, UE4Editor, ContentDir, PluginsDir, SourceDir}

InitValidity ==
    /\ config_file = AppConfigFile
    /\ configStore = AbsentConfig
    /\ fs \in {[p \in Paths |-> IF p = P427 THEN items ELSE {}] :
                  items \in SUBSET InstallItems}
    /\ cfgDirWritable = TRUE
    /\ cfgFileWritable = TRUE
    /\ hashOrder = <<P53C, P53D, P427, PUnreal>>
    /\ found_engines = EmptyMap
    /\ lastCall = NoCall
    /\ IdleBuilder
    /\ IdleCommand
    /\ IdleWindow

NextValidity == FindAllEngines

SpecValidity == InitValidity /\ [][NextValidity]_vars

(***************************************************************************)
(* Build Orchestrator (plugin_builder.py) driven by the main window        *)
(***************************************************************************)
MaxBuilds == 2
MaxChunks == 2
MaxFailedStarts == 1

OutputDirs == {"/plugins/Foo_5.3", "/plugins/Foo_4.27"}

\* a signal of PluginBuilder.signals: the build it belongs to (0: none), the
\* signal, the code that emitted it, and the log level or outcome it carries
Ev(b, kind, src, info) == [build |-> b, kind |-> kind, src |-> src, info |-> info]

IdleFinder ==
    /\ config_file = AppConfigFile
    /\ configStore = AbsentConfig
    /\ fs = [p \in Paths |-> FullInstall]
    /\ cfgDirWritable = TRUE
    /\ cfgFileWritable = TRUE
    /\ hashOrder = <<P53C, P53D, P427, PUnreal>>
    /\ found_engines = EmptyMap
    /\ lastCall = NoCall

InitBuilder == IdleFinder /\ IdleBuilder /\ IdleCommand /\ IdleWindow

\* the main thread is inside cancel_build (blocked in proc.wait or further on)
InCancel == cancelPc # "idle"

\* variant: the build button is left in build mode when a build starts
handle_build_started_NoSwitch == "build"

\* MainWindow.handle_build_started: the mode the build button is switched to
handle_build_started == "abort"

\* MainWindow.handle_build_finished: the build button returns to build mode
handle_build_finished == "build"

FailedStarts == Cardinality({i \in DOMAIN events : events[i].build = 0})

\* PluginBuilder.build_plugin, called from MainWindow.build_plugin on a click
\* of the build button in build mode.
\*   pre: the first failing precondition, or "ok"
\*   started: whether QProcess.start spawned the process
build_plugin(out, pre, started) ==
    LET id == process + 1
    IN  /\ output_folder' = out
        /\ IF pre = "no_plugin"
           THEN /\ events' = Append(events, Ev(0, "log_message", "build_plugin", "ERROR"))
                /\ UNCHANGED <<process, procState, osAlive, exitPending, button,
                               dirs, chunks, launchedFolder>>
           ELSE IF pre = "no_permission"
           THEN /\ events' = Append(events, Ev(0, "log_message", "build_plugin", "ERROR"))
                /\ UNCHANGED <<process, procState, osAlive, exitPending, button,
                               dirs, chunks, launchedFolder>>
           ELSE IF pre = "no_command"
           THEN /\ dirs' = dirs \cup {out}
                /\ events' = Append(events, Ev(0, "log_message", "build_plugin", "ERROR"))
                /\ UNCHANGED <<process, procState, osAlive, exitPending, button,
                               chunks, launchedFolder>>
           ELSE /\ dirs' = dirs \cup {out}
                /\ launchedFolder' = out
                /\ events' = <<Ev(id, "log_message", "build_plugin", "INFO"),
                               Ev(id, "build_started", "build_plugin", "-")>>
                /\ button' = handle_build_started
                \* self.process = QProcess(): the previous handle is released
                \* and delivers no further signal
                /\ process' = id
                /\ chunks' = 0
                /\ exitPending' = None
                /\ procState' = IF started THEN "Running" ELSE "NotRunning"
                /\ osAlive' = IF started THEN osAlive \cup {id} ELSE osAlive

ClickBuild ==
    /\ button = "build"
    /\ ~dialogOpen
    /\ ~InCancel
    /\ \E out \in OutputDirs, started \in BOOLEAN,
          pre \in {"ok", "no_plugin", "no_permission", "no_command"} :
          /\ pre = "ok" => process < MaxBuilds
          /\ pre # "ok" => FailedStarts < MaxFailedStarts
          /\ build_plugin(out, pre, started)
    /\ lastRet' = None
    /\ UNCHANGED <<dialogOpen, cancelPc, killsPending, cancelLog>>
    /\ UNCHANGED <<finderVars, commandVars, windowVars>>

\* MainWindow.show_command, on a click of the Show Command button: the
\* builder's fields are rewritten from the current selection of the window
\* (out is what get_output_path returns for it) before the command is formed
ClickShowCommand ==
    /\ ~dialogOpen
    /\ ~InCancel
    /\ \E out \in OutputDirs :
          /\ out # output_folder
          /\ output_folder' = out
    /\ UNCHANGED <<process, procState, osAlive, exitPending, button, dialogOpen,
                   launchedFolder, dirs, events, chunks, cancelPc, killsPending,
                   cancelLog, lastRet>>
    /\ UNCHANGED <<finderVars, commandVars, windowVars>>

\* The external process ends by itself with an exit code.
ProcExit ==
    \E b \in osAlive, code \in {"0", "1"} :
        /\ osAlive' = osAlive \ {b}
        /\ exitPending' = IF b = process THEN code ELSE exitPending
        /\ UNCHANGED <<process, procState, button, dialogOpen, output_folder, launchedFolder,
                       dirs, events, chunks, cancelPc, killsPending, cancelLog,
                       lastRet>>
        /\ UNCHANGED <<finderVars, commandVars, windowVars>>

\* the handle's readyRead signals are dispatched while the process runs, and
\* for output still buffered when it has ended, before finished is dispatched
CanDispatchOutput ==
    /\ process # 0
    /\ procState = "Running"
    /\ ~InCancel
    /\ chunks < MaxChunks

\* A stdout line, by what the handler looks for in it: the keywords it
\* contains and the number of its first <digits>% token (NoPercent without one).
NoPercent == -1

Line(kw, pct) == [keywords |-> kw, percent |-> pct]

\* the lines the external tool prints in this model
StdoutLines == {Line({}, 42), Line({"error", "warning"}, NoPercent)}

\* variant: the warning keywords are looked for first
log_type_WarningFirst(line) ==
    IF line.keywords \cap {"warning", "preduprezhdenie"} # {} THEN "WARNING"
    ELSE IF line.keywords \cap {"error", "oshibka", "failed"} # {} THEN "ERROR"
    ELSE IF line.keywords \cap {"success", "uspeshno", "completed"} # {} THEN "SUCCESS"
    ELSE "INFO"

\* the level chosen by the if/elif chain of re.search calls (the Russian
\* keywords are written in Latin letters here)
log_type(line) ==
    IF line.keywords \cap {"error", "oshibka", "failed"} # {} THEN "ERROR"
    ELSE IF line.keywords \cap {"warning", "preduprezhdenie"} # {} THEN "WARNING"
    ELSE IF line.keywords \cap {"success", "uspeshno", "completed"} # {} THEN "SUCCESS"
    ELSE "INFO"

\* PluginBuilder._process_stdout for one non-empty line
ProcessStdout ==
    /\ CanDispatchOutput
    /\ \E line \in StdoutLines :
          events' = events \o
              (<<Ev(process, "log_message", "stdout", log_type(line))>> \o
               IF line.percent # NoPercent
               THEN <<Ev(process, "build_progress", "stdout", ToString(line.percent))>>
               ELSE <<>>)
    /\ chunks' = chunks + 1
    /\ UNCHANGED <<process, procState, osAlive, exitPending, button, dialogOpen,
                   output_folder, launchedFolder, dirs, cancelPc, killsPending, cancelLog, lastRet>>
    /\ UNCHANGED <<finderVars, commandVars, windowVars>>

\* PluginBuilder._process_stderr for one non-empty line
ProcessStderr ==
    /\ CanDispatchOutput
    /\ events' = Append(events, Ev(process, "log_message", "stderr", "ERROR"))
    /\ chunks' = chunks + 1
    /\ UNCHANGED <<process, procState, osAlive, exitPending, button, dialogOpen,
                   output_folder, launchedFolder, dirs, cancelPc, killsPending, cancelLog, lastRet>>
    /\ UNCHANGED <<finderVars, commandVars, windowVars>>

\* PluginBuilder._process_finished, connected to the handle's finished signal,
\* followed by MainWindow.handle_build_finished
ProcessFinished ==
    /\ process # 0
    /\ procState = "Running"
    /\ exitPending # None
    /\ ~InCancel
    /\ procState' = "NotRunning"
    /\ exitPending' = None
    /\ events' = events \o
          (IF exitPending = "0"
           THEN <<Ev(process, "log_message", "finished", "SUCCESS"),
                  Ev(process, "build_finished", "finished", "success")>>
           ELSE <<Ev(process, "log_message", "finished", "ERROR"),
                  Ev(process, "build_finished", "finished", "failed")>>)
    /\ button' = handle_build_finished
    /\ UNCHANGED <<process, osAlive, dialogOpen, output_folder, launchedFolder, dirs, chunks,
                   cancelPc, killsPending, cancelLog, lastRet>>
    /\ UNCHANGED <<finderVars, commandVars, windowVars>>

(***************************************************************************)
(* Cancellation: MainWindow.cancel_build and PluginBuilder.cancel_build    *)
(***************************************************************************)
\* the taskkill commands of cancel_build, in the order they are spawned:
\* the process tree of the handle's pid, then the two build tool images
KillCommands == <<"taskkill /F /PID pid /T", "taskkill /F /IM UnrealBuildTool.exe",
                  "taskkill /F /IM UBT.exe">>

SpawnPc(i) == <<"spawn1", "spawn2", "spawn3">>[i]
WaitPc(i) == <<"wait1", "wait2", "wait3">>[i]

\* a click on the build button in abort mode opens the confirmation dialog
ClickAbort ==
    /\ button = "abort"
    /\ ~dialogOpen
    /\ ~InCancel
    /\ dialogOpen' = TRUE
    /\ lastRet' = None
    /\ UNCHANGED <<process, procState, osAlive, exitPending, button, output_folder, launchedFolder,
                   dirs, events, chunks, cancelPc, killsPending, cancelLog>>
    /\ UNCHANGED <<finderVars, commandVars, windowVars>>

\* the user answers No: cancel_build is not called
ConfirmNo ==
    /\ dialogOpen
    /\ dialogOpen' = FALSE
    /\ UNCHANGED <<process, procState, osAlive, exitPending, button, output_folder, launchedFolder,
                   dirs, events, chunks, cancelPc, killsPending, cancelLog, lastRet>>
    /\ UNCHANGED <<finderVars, commandVars, windowVars>>

\* variant: only a missing handle counts as idle
no_active_process_HandleOnly == process = 0

\* not self.process or self.process.state() == QProcess.NotRunning
no_active_process == process = 0 \/ procState = "NotRunning"

\* the user answers Yes: PluginBuilder.cancel_build is entered; it returns
\* False at once when no process is active
ConfirmYes ==
    /\ dialogOpen
    /\ dialogOpen' = FALSE
    /\ IF no_active_process
       THEN /\ lastRet' = "False"
            /\ UNCHANGED <<cancelPc, cancelLog>>
       ELSE /\ lastRet' = None
            /\ cancelPc' = SpawnPc(1)
            /\ cancelLog' = <<>>
    /\ UNCHANGED <<process, procState, osAlive, exitPending, button, output_folder, launchedFolder,
                   dirs, events, chunks, killsPending>>
    /\ UNCHANGED <<finderVars, commandVars, windowVars>>

\* subprocess.Popen(taskkill ...)
CancelSpawn(i) ==
    /\ cancelPc = SpawnPc(i)
    /\ killsPending' = killsPending \cup {i}
    /\ cancelLog' = Append(cancelLog, "taskkill")
    /\ cancelPc' = WaitPc(i)
    /\ UNCHANGED <<process, procState, osAlive, exitPending, button, dialogOpen,
                   output_folder, launchedFolder, dirs, events, chunks, lastRet>>
    /\ UNCHANGED <<finderVars, commandVars, windowVars>>

\* A taskkill command completes; the first one has terminated the process
\* tree of the handle's pid.
TaskkillReturns(i) ==
    /\ i \in killsPending
    /\ killsPending' = killsPending \ {i}
    /\ IF i = 1 /\ process \in osAlive
       THEN /\ osAlive' = osAlive \ {process}
            /\ exitPending' = "1"
       ELSE UNCHANGED <<osAlive, exitPending>>
    /\ UNCHANGED <<process, procState, button, dialogOpen, output_folder, launchedFolder, dirs,
                   events, chunks, cancelPc, cancelLog, lastRet>>
    /\ UNCHANGED <<finderVars, commandVars, windowVars>>

\* variant: the command is not waited for
kill_returned_NoWait(i) == TRUE

\* proc.wait() returns once the command has completed
kill_returned(i) == i \notin killsPending

CancelWait(i) ==
    /\ cancelPc = WaitPc(i)
    /\ kill_returned(i)
    /\ cancelLog' = Append(cancelLog, "wait")
    /\ cancelPc' = IF i < Len(KillCommands) THEN SpawnPc(i + 1) ELSE "cleanup"
    /\ UNCHANGED <<process, procState, osAlive, exitPending, button, dialogOpen,
                   output_folder, launchedFolder, dirs, events, chunks, killsPending, lastRet>>
    /\ UNCHANGED <<finderVars, commandVars, windowVars>>

\* shutil.rmtree(self.output_folder, ignore_errors=True) when the folder
\* exists: it may or may not succeed and never raises
CancelCleanup ==
    /\ cancelPc = "cleanup"
    /\ IF output_folder # None /\ output_folder \in dirs
       THEN /\ \E removed \in BOOLEAN :
                  dirs' = IF removed THEN dirs \ {output_folder} ELSE dirs
            /\ events' = Append(events, Ev(process, "log_message", "cancel", "SUCCESS"))
            /\ cancelLog' = Append(cancelLog, "rmtree")
       ELSE /\ cancelLog' = Append(cancelLog, "no_dir")
            /\ UNCHANGED <<dirs, events>>
    /\ cancelPc' = "emit"
    /\ UNCHANGED <<process, procState, osAlive, exitPending, button, dialogOpen,
                   output_folder, launchedFolder, chunks, killsPending, lastRet>>
    /\ UNCHANGED <<finderVars, commandVars, windowVars>>

\* the log and the build_finished signal of the cancellation; cancel_build
\* returns True and MainWindow.cancel_build switches the button to build mode
CancelEmit ==
    /\ cancelPc = "emit"
    /\ events' = events \o
          <<Ev(process, "log_message", "cancel", "WARNING"),
            Ev(process, "build_finished", "cancel", "cancelled")>>
    /\ cancelLog' = Append(cancelLog, "build_finished")
    /\ button' = handle_build_finished
    /\ lastRet' = "True"
    /\ cancelPc' = "idle"
    /\ UNCHANGED <<process, procState, osAlive, exitPending, dialogOpen,
                   output_folder, launchedFolder, dirs, chunks, killsPending>>
    /\ UNCHANGED <<finderVars, commandVars, windowVars>>

NextBuilder ==
    \/ ClickBuild
    \/ ClickShowCommand
    \/ ProcExit
    \/ ProcessStdout
    \/ ProcessStderr
    \/ ProcessFinished
    \/ ClickAbort
    \/ ConfirmNo
    \/ ConfirmYes
    \/ \E i \in DOMAIN KillCommands : CancelSpawn(i)
    \/ \E i \in DOMAIN KillCommands : TaskkillReturns(i)
    \/ \E i \in DOMAIN KillCommands : CancelWait(i)
    \/ CancelCleanup
    \/ CancelEmit

SpecBuilder == InitBuilder /\ [][NextBuilder]_vars

\* What the scheduling guarantees: the external process ends, the event loop
\* dispatches the finished signal of the handle, every taskkill command
\* returns and cancel_build runs on from statement to statement.  Nothing is
\* assumed of the user's clicks.
FairBuilder ==
    /\ WF_vars(ProcExit)
    /\ WF_vars(ProcessFinished)
    /\ \A i \in DOMAIN KillCommands :
          /\ WF_vars(CancelSpawn(i))
          /\ WF_vars(TaskkillReturns(i))
          /\ WF_vars(CancelWait(i))
    /\ WF_vars(CancelCleanup)
    /\ WF_vars(CancelEmit)

SpecBuilderLive == InitBuilder /\ [][NextBuilder]_vars /\ FairBuilder

(***************************************************************************)
(* Command construction (plugin_builder.py)                                *)
(***************************************************************************)

\* ---- option values: the Python value, its type and its str() ------------
PyTrue == [t |-> "bool", s |-> <<"True">>]
PyFalse == [t |-> "bool", s |-> <<"False">>]
PyNone == [t |-> "NoneType", s |-> <<"None">>]
PyStr(s) == [t |-> "str", s |-> s]

\* an entry of the additional_params dict
Opt(key, value) == [key |-> key, value |-> value]

\* variant: any value that is truthy counts as a flag
is_True_Truthy(value) == value \notin {PyFalse, PyNone, PyStr(<<>>)}

\* value is True
is_True(value) == value = PyTrue

\* value in (False, None, "")
in_False_None_empty(value) == value \in {PyFalse, PyNone, PyStr(<<>>)}

\* the tokens the loop over additional_params.items() appends
RECURSIVE option_tokens(_)
option_tokens(params) ==
    IF params = <<>> THEN <<>>
    ELSE LET param == Head(params).key
             value == Head(params).value
         IN  (IF is_True(value) THEN << <<"-", param>> >>
              ELSE IF ~in_False_None_empty(value)
              THEN << <<"-", param>>, value.s >>
              ELSE <<>>) \o option_tokens(Tail(params))

Log(level, msg) == [sig |-> "log_message", level |-> level, msg |-> msg]
BuildStarted == [sig |-> "build_started", level |-> "-", msg |-> "-"]
Progress(n) == [sig |-> "build_progress", level |-> "-", msg |-> ToString(n)]

\* no command: the None that get_build_command returns
NoCommand == <<>>

uat_path(target_engine_path) ==
    normpath(os_path_join(target_engine_path,
                          <<"Engine", "Build", "BatchFiles", "RunUAT.bat">>))

\* variant: the entry script is not looked for
uat_missing_Unchecked(target_engine_path, disk) == FALSE

\* not os.path.exists(uat_path)
uat_missing(target_engine_path, disk) ==
    ~os_path_exists(uat_path(target_engine_path), disk)

\* get_build_command: the command (NoCommand for None) and what it logs
get_build_command(f, disk) ==
    IF f.source_plugin_path = <<>> \/ f.output_folder = <<>>
       \/ f.target_engine_path = <<>>
    THEN [command |-> NoCommand,
          signals |-> <<Log("ERROR", "not_all_parameters_set")>>]
    ELSE IF uat_missing(f.target_engine_path, disk)
    THEN [command |-> NoCommand, signals |-> <<Log("ERROR", "help_error_uat")>>]
    ELSE [command |->
              <<uat_path(f.target_engine_path), <<"BuildPlugin">>,
                <<"-", "plugin">>, normpath(f.source_plugin_path),
                <<"-", "package">>, normpath(f.output_folder)>>
              \o option_tokens(f.additional_params),
          signals |-> <<>>]

\* the loop of get_command_string over command[2:], two tokens at a time
\* (i is the 1-based index of the token the iteration starts at)
RECURSIVE formatted_command(_, _, _)
formatted_command(command, i, disk) ==
    IF i > Len(command) THEN <<>>
    ELSE IF i + 1 <= Len(command)
    THEN LET param == command[i]
             value == command[i + 1]
         IN  <<IF os_path_exists(os_path_dirname(value), disk)
               THEN param \o <<"=", "\"">> \o replace_backslashes(value) \o <<"\"">>
               ELSE param \o <<"=">> \o value>>
             \o formatted_command(command, i + 2, disk)
    ELSE <<command[i]>>

\* get_command_string: the text and what the call logs
get_command_string(f, disk) ==
    LET built == get_build_command(f, disk)
        command == built.command
    IN  [text |-> IF command = NoCommand THEN <<>>
                  ELSE Join(<<command[1], command[2]>>
                            \o formatted_command(command, 3, disk), " "),
         signals |-> built.signals]

\* param.lstrip('-')
RECURSIVE lstrip_dash(_)
lstrip_dash(s) ==
    IF s # <<>> /\ Head(s) = "-" THEN lstrip_dash(Tail(s)) ELSE s

\* the upper-case form of a first letter
Capitalized(piece) ==
    CASE piece = "plugin" -> "Plugin"
      [] piece = "package" -> "Package"
      [] OTHER -> piece

\* param[0].upper() + param[1:]
upper_first(s) == <<Capitalized(Head(s))>> \o Tail(s)

\* the loop of build_plugin over command[2:], two tokens at a time
RECURSIVE formatted_args(_, _, _)
formatted_args(command, i, disk) ==
    IF i > Len(command) THEN <<>>
    ELSE IF i + 1 <= Len(command)
    THEN LET param == command[i]
             value == IF os_path_exists(os_path_dirname(command[i + 1]), disk)
                      THEN replace_backslashes(command[i + 1])
                      ELSE command[i + 1]
             param_name == upper_first(lstrip_dash(param))
         IN  << <<"-">> \o param_name \o <<"=">> \o value >>
             \o formatted_args(command, i + 2, disk)
    ELSE << <<"-">> \o upper_first(lstrip_dash(command[i])) >>

\* variant: the plugin file is not looked for
plugin_missing_Unchecked(f, disk) == FALSE

\* not os.path.exists(source_plugin_path)
plugin_missing(f, disk) == ~os_path_exists(f.source_plugin_path, disk)

\* os.makedirs(output_folder, exist_ok=True): the folder and its parents exist
makedirs(path, disk) ==
    disk \cup {SubSeq(Segments(path), 1, n) : n \in 1..Len(Segments(path))}

\* build_plugin up to QProcess.start: the value returned, the signals emitted,
\* the disk afterwards and the program and arguments handed to start
\*   mkdir_ok: os.makedirs did not raise
start_request(f, disk, mkdir_ok) ==
    LET failed(sigs, d) ==
            [ret |-> "False", signals |-> sigs, disk |-> d, command |-> NoCommand,
             text |-> <<>>, program |-> <<>>, arguments |-> <<>>]
        made == makedirs(f.output_folder, disk)
        built == get_build_command(f, made)
        shown == get_command_string(f, made)
    IN  IF plugin_missing(f, disk)
        THEN failed(<<Log("ERROR", "error_plugin_not_found")>>, disk)
        ELSE IF ~os_access_w(os_path_dirname(f.output_folder), disk)
        THEN failed(<<Log("ERROR", "no_permission")>>, disk)
        ELSE IF ~mkdir_ok
        THEN failed(<<Log("ERROR", "makedirs_failed")>>, disk)
        ELSE IF built.command = NoCommand
        THEN failed(built.signals, made)
        ELSE [ret |-> "True",
              signals |-> shown.signals
                          \o <<Log("INFO", "log_build_command"), BuildStarted>>,
              disk |-> made,
              command |-> built.command,
              text |-> shown.text,
              program |-> built.command[1],
              arguments |-> <<built.command[2]>>
                            \o formatted_args(built.command, 3, made)]

(***************************************************************************)
(* Output classification: _process_stdout and _process_stderr as functions *)
(* of the data read, a list of lines.                                      *)
(***************************************************************************)
\* the words of the tool's output in this model, as printed
Words == {"error", "ERROR", "errors", "Warning", "failed", "successfully",
          "completed", "oshibka", "Preduprezhdenie", "uspeshno", "done"}

\* the keyword a word contains when letter case is ignored (re.IGNORECASE),
\* None without one
KeywordIn(w) ==
    CASE w \in {"error", "ERROR", "errors"} -> "error"
      [] w = "Warning" -> "warning"
      [] w = "failed" -> "failed"
      [] w = "successfully" -> "success"
      [] w = "completed" -> "completed"
      [] w = "oshibka" -> "oshibka"
      [] w = "Preduprezhdenie" -> "preduprezhdenie"
      [] w = "uspeshno" -> "uspeshno"
      [] OTHER -> None

\* a line of output: its words, the number of its first <digits>% token
\* (NoPercent without one), and whether line.strip() leaves nothing
TextLine(words, pct, blank) == [words |-> words, percent |-> pct, blank |-> blank]

BlankLine == TextLine({}, NoPercent, TRUE)

keywords_of(l) == {KeywordIn(w) : w \in l.words} \ {None}

\* what _process_stdout emits for one line of the data
stdout_signals(l) ==
    IF l.blank THEN <<>>
    ELSE <<Log(log_type(Line(keywords_of(l), l.percent)), "line")>>
         \o (IF l.percent # NoPercent THEN <<Progress(l.percent)>> ELSE <<>>)

RECURSIVE process_stdout(_)
process_stdout(data) ==
    IF data = <<>> THEN <<>>
    ELSE stdout_signals(Head(data)) \o process_stdout(Tail(data))

RECURSIVE process_stderr(_)
process_stderr(data) ==
    IF data = <<>> THEN <<>>
    ELSE (IF Head(data).blank THEN <<>> ELSE <<Log("ERROR", "line")>>)
         \o process_stderr(Tail(data))

(***************************************************************************)
(* extract_plugin_info                                                     *)
(***************************************************************************)
PyInt(digits) == [t |-> "int", s |-> <<digits>>]
PyList(items) == [t |-> "list", s |-> items]

RecognisedKeys == {"FriendlyName", "Version", "Description", "Category",
                   "Modules", "EngineVersion", "MarketplaceURL",
                   "SupportedTargetPlatforms"}

\* the content of the .uplugin file: what json.load makes of it
Descriptor(kind, obj) == [kind |-> kind, obj |-> obj]

\* plugin_data.get(key, default)
dict_get(obj, key, default) == IF key \in DOMAIN obj THEN obj[key] ELSE default

\* variant: the key being there makes an engine plugin
is_engine_plugin_KeyPresent(obj) ==
    IF "EngineVersion" \in DOMAIN obj THEN PyTrue ELSE PyFalse

\* plugin_data.get("EngineVersion", "") != ""
is_engine_plugin(obj) ==
    IF dict_get(obj, "EngineVersion", PyStr(<<>>)) # PyStr(<<>>)
    THEN PyTrue ELSE PyFalse

\* [m.get("Name") for m in modules]: an entry without Name (written "?")
\* gives None
module_names(modules) ==
    PyList([i \in 1..Len(modules.s) |->
               IF modules.s[i] = "?" THEN "None" ELSE modules.s[i]])

\* extract_plugin_info: the record returned (NoInfo for None) and the log.
\* Any exception is caught: a file that is absent or is not JSON, JSON that
\* is not an object, Modules that is not a list.
extract_plugin_info(d) ==
    LET failed == [info |-> NoInfo,
                   signals |-> <<Log("ERROR", "Error reading plugin information")>>]
        obj == d.obj
    IN  IF d.kind # "object" THEN failed
        ELSE IF dict_get(obj, "Modules", PyList(<<>>)).t # "list" THEN failed
        ELSE [info |->
                 [a \in {"name", "version", "description", "category", "modules",
                         "is_engine_plugin", "engine_version", "marketplace_url",
                         "supported_platforms"} |->
                    CASE a = "name" ->
                            dict_get(obj, "FriendlyName", PyStr(<<"Unknown Plugin">>))
                      [] a = "version" -> dict_get(obj, "Version", PyInt("0"))
                      [] a = "description" -> dict_get(obj, "Description", PyStr(<<>>))
                      [] a = "category" -> dict_get(obj, "Category", PyStr(<<>>))
                      [] a = "modules" ->
                            module_names(dict_get(obj, "Modules", PyList(<<>>)))
                      [] a = "is_engine_plugin" -> is_engine_plugin(obj)
                      [] a = "engine_version" ->
                            dict_get(obj, "EngineVersion", PyStr(<<>>))
                      [] a = "marketplace_url" ->
                            dict_get(obj, "MarketplaceURL", PyStr(<<>>))
                      [] OTHER ->
                            dict_get(obj, "SupportedTargetPlatforms", PyList(<<>>))],
              signals |-> <<>>]

(***************************************************************************)
(* The calls of these functions and their inputs                           *)
(***************************************************************************)
MaxOptions == 2
MaxLines == 2

PluginFile == <<"C:", "/", "Plugins", "/", "Foo", "/", "Foo.uplugin">>
Engine53 == <<"C:", "/", "Epic Games", "/", "UE_5.3">>
Engine427 == <<"D:", "/", "UE_4.27">>

SourcePaths == {<<>>, PluginFile, <<"C:", "/", "Gone", "/", "Foo.uplugin">>}

OutputPaths == {<<>>, <<"C:", "/", "Plugins", "/", "Foo_5.3">>, <<"Foo_5.3">>,
                <<"C:", "/", "Locked", "/", "Foo_5.3">>}

TargetPaths == {<<>>, Engine53, Engine427}

FullDisk == {<<"C:">>, <<"C:", "Plugins">>, <<"C:", "Plugins", "Foo">>,
             Segments(PluginFile), <<"C:", "Locked">>, <<"C:", "Epic Games">>,
             Segments(Engine53), Segments(uat_path(Engine53)),
             <<"D:">>, Segments(Engine427)}

\* the disk with and without the entry script of the 5.3 installation
Disks == {FullDisk, FullDisk \ {Segments(uat_path(Engine53))}}

OptionKeys == {"TargetPlatforms", "Strict", "Unversioned"}
OptionValues == {PyTrue, PyFalse, PyNone, PyStr(<<>>), PyStr(<<"Win64">>)}

KeysOf(params) == {params[i].key : i \in 1..Len(params)}

\* the dicts of at most n entries, in every insertion order
RECURSIVE OptionMaps(_)
OptionMaps(n) ==
    IF n = 0 THEN {<<>>}
    ELSE LET prev == OptionMaps(n - 1)
         IN  prev \cup UNION {{Append(m, Opt(k, v)) :
                                  k \in OptionKeys \ KeysOf(m), v \in OptionValues} :
                              m \in prev}

\* the fields of a call: every choice of the three paths with the dicts of
\* at most one entry, and the paths of a plugin that can be built with every
\* dict
FieldChoices ==
    [source_plugin_path : SourcePaths, output_folder : OutputPaths,
     target_engine_path : TargetPaths, additional_params : OptionMaps(1)]
    \cup [source_plugin_path : {PluginFile},
          output_folder : {<<"C:", "/", "Plugins", "/", "Foo_5.3">>},
          target_engine_path : {Engine53},
          additional_params : OptionMaps(MaxOptions)]

\* MainWindow.show_command: the fields are set from the selection and
\* get_command_string is called
ShowCommand ==
    /\ request.op = "show_command"
    /\ LET f == request.fields
           shown == get_command_string(f, existing)
       IN  /\ pbFields' = f
           /\ lastOp' = [NoOp EXCEPT !.op = "get_command_string",
                                     !.command = get_build_command(f, existing).command,
                                     !.text = shown.text,
                                     !.signals = shown.signals,
                                     !.before = existing]
    /\ UNCHANGED <<existing, request>>
    /\ UNCHANGED <<finderVars, builderVars, windowVars>>

\* PluginBuilder.build_plugin up to QProcess.start (what the process does
\* afterwards is the subject of SpecBuilder)
StartBuild ==
    /\ request.op = "build_plugin"
    /\ LET f == request.fields
           r == start_request(f, existing, request.mkdirOk)
       IN  /\ pbFields' = f
           /\ existing' = r.disk
           /\ lastOp' = [NoOp EXCEPT !.op = "build_plugin",
                                     !.ret = r.ret,
                                     !.signals = r.signals,
                                     !.command = r.command,
                                     !.text = r.text,
                                     !.program = r.program,
                                     !.arguments = r.arguments,
                                     !.before = existing,
                                     !.mkdirOk = request.mkdirOk]
    /\ UNCHANGED request
    /\ UNCHANGED <<finderVars, builderVars, windowVars>>

WordSets == {{}, {"ERROR", "Warning"}, {"Warning", "completed"},
             {"errors", "uspeshno"}, {"Preduprezhdenie", "successfully"},
             {"failed", "done"}, {"oshibka"}}

Percents == {NoPercent, 42, 150}

TextLines == {TextLine(w, p, FALSE) : w \in WordSets, p \in Percents}
                \cup {BlankLine}

\* the data of at most n lines
RECURSIVE DataUpTo(_)
DataUpTo(n) ==
    IF n = 0 THEN {<<>>}
    ELSE LET prev == DataUpTo(n - 1)
         IN  prev \cup {Append(d, l) : d \in prev, l \in TextLines}

\* _process_stdout on the data read from the process
ReadStdout ==
    /\ request.op = "_process_stdout"
    /\ lastOp' = [NoOp EXCEPT !.op = "_process_stdout", !.data = request.data,
                              !.signals = process_stdout(request.data)]
    /\ UNCHANGED <<pbFields, existing, request>>
    /\ UNCHANGED <<finderVars, builderVars, windowVars>>

\* _process_stderr on the data read from the process
ReadStderr ==
    /\ request.op = "_process_stderr"
    /\ lastOp' = [NoOp EXCEPT !.op = "_process_stderr", !.data = request.data,
                              !.signals = process_stderr(request.data)]
    /\ UNCHANGED <<pbFields, existing, request>>
    /\ UNCHANGED <<finderVars, builderVars, windowVars>>

\* the value each recognised key has in the descriptors of this model
SampleValue(k) ==
    CASE k = "FriendlyName" -> PyStr(<<"Foo">>)
      [] k = "Version" -> PyInt("2")
      [] k = "Description" -> PyStr(<<"A plugin">>)
      [] k = "Category" -> PyStr(<<"Tools">>)
      [] k = "Modules" -> PyList(<<"FooRuntime", "?">>)
      [] k = "EngineVersion" -> PyStr(<<"5.3">>)
      [] k = "MarketplaceURL" -> PyStr(<<"com.epicgames.launcher://ue/foo">>)
      [] OTHER -> PyList(<<"Win64">>)

\* a well-formed descriptor holding exactly the keys K
ObjectWith(K) == Descriptor("object", [k \in K |-> SampleValue(k)])

\* well-formed descriptors with every choice of keys, some with an empty or
\* null EngineVersion; then the malformed ones: a file that is not JSON, a
\* JSON array, an absent file, and Modules that is null
Descriptors ==
    {ObjectWith(K) : K \in SUBSET RecognisedKeys}
    \cup {Descriptor("object", [k \in K |->
                                  IF k = "EngineVersion" THEN v ELSE SampleValue(k)]) :
            K \in {{"EngineVersion"}, RecognisedKeys}, v \in {PyStr(<<>>), PyNone}}
    \cup {Descriptor("unparseable", NoInfo), Descriptor("array", NoInfo),
          Descriptor("missing", NoInfo)}
    \cup {Descriptor("object", [k \in {"FriendlyName", "Modules"} |->
                                  IF k = "Modules" THEN PyNone ELSE SampleValue(k)])}

ExtractPluginInfo ==
    /\ request.op = "extract_plugin_info"
    /\ LET r == extract_plugin_info(request.descriptor)
       IN  lastOp' = [NoOp EXCEPT !.op = "extract_plugin_info",
                                  !.descriptor = request.descriptor,
                                  !.info = r.info,
                                  !.signals = r.signals]
    /\ UNCHANGED <<pbFields, existing, request>>
    /\ UNCHANGED <<finderVars, builderVars, windowVars>>

\* what the plugin path field, the target list and the output directory field
\* of the window can hold
PluginPathTexts ==
    {<<>>,
     <<"C:", "/", "Plugins", "/", "Foo", "/", "Foo", ".uplugin">>,
     <<"C:", "/", "Plugins", "/", "Foo", "_", "5.3", "/", "Foo", ".uplugin">>,
     <<"C:", "\\", "Plugins", "\\", "Foo", "_", "5.3", "\\", "Foo", ".uplugin">>,
     <<"C:", "/", "Plugins", "/", "Foo", "_", "4.27", "/", "Foo", ".uplugin">>,
     <<"C:", "/", "Plugins", "/", "Foo", "_", "5.3", "_", "build", "/", "Foo", ".uplugin">>,
     <<"C:", "/", "Plugins", "/", "My", "_", "Tools", "/", "Foo", ".uplugin">>,
     <<"C:", "/", "Plugins", "/", "Bar", "/", "Foo", ".uplugin">>}

TargetTexts == {"5.3", "4.27"}

CustomDirTexts ==
    {<<>>,
     <<"C:", "/", "Plugins">>,
     <<"C:", "/", "Plugins", "/">>,
     <<"C:", "\\", "Plugins">>,
     <<"C:", "/", "Out">>,
     <<"C:", "/", "Plugins", "/", "Foo">>}

\* MainWindow.get_output_path
get_output_path(plugin_path, target_version, same_dir, custom_dir) ==
    IF plugin_path = <<>> THEN <<>>
    ELSE
        LET plugin_dir == os_path_dirname(plugin_path)
            plugin_name == os_path_splitext_root(os_path_basename(plugin_path))
            parent_dir == os_path_dirname(plugin_dir)
            plugin_folder_name == os_path_basename(plugin_dir)
            base_folder_name == split_underscore_first(plugin_folder_name)
            new_folder_name == base_folder_name \o <<"_", target_version>>
            joined == os_path_join2(parent_dir, new_folder_name)
            output_path ==
                IF same_dir
                THEN IF os_path_normpath(joined) = os_path_normpath(plugin_dir)
                     THEN joined \o <<"_", "build">>
                     ELSE joined
                ELSE os_path_join2(custom_dir, plugin_name \o <<"_", target_version>>)
        IN  replace_backslashes(os_path_normpath(output_path))

\* the window computes the output path for what its fields hold
GetOutputPath ==
    /\ request.op = "get_output_path"
    /\ lastOp' = [NoOp EXCEPT !.op = "get_output_path",
                              !.plugin = request.plugin,
                              !.sameDir = request.sameDir,
                              !.output = get_output_path(request.plugin, request.version,
                                                         request.sameDir, request.customDir)]
    /\ UNCHANGED <<pbFields, existing, request>>
    /\ UNCHANGED <<finderVars, builderVars, windowVars>>

\* the calls made in this model, each with every choice of its arguments
Requests ==
    {[NoRequest EXCEPT !.op = "show_command", !.fields = f] : f \in FieldChoices}
    \cup {[NoRequest EXCEPT !.op = "build_plugin", !.fields = f, !.mkdirOk = b] :
            f \in FieldChoices, b \in BOOLEAN}
    \cup {[NoRequest EXCEPT !.op = op, !.data = d] :
            op \in {"_process_stdout", "_process_stderr"},
            d \in DataUpTo(MaxLines) \ {<<>>}}
    \cup {[NoRequest EXCEPT !.op = "extract_plugin_info", !.descriptor = d] :
            d \in Descriptors}
    \cup {[NoRequest EXCEPT !.op = "get_output_path", !.plugin = p, !.version = v,
                            !.sameDir = m, !.customDir = c] :
            p \in PluginPathTexts, v \in TargetTexts, m \in BOOLEAN,
            c \in CustomDirTexts}

InitCommand ==
    /\ IdleFinder
    /\ IdleBuilder
    /\ IdleWindow
    /\ pbFields = UnsetFields
    /\ existing \in Disks
    /\ request \in Requests
    /\ lastOp = NoOp

NextCommand ==
    \/ ShowCommand
    \/ StartBuild
    \/ ReadStdout
    \/ ReadStderr
    \/ ExtractPluginInfo
    \/ GetOutputPath

SpecCommand == InitCommand /\ [][NextCommand]_vars

(***************************************************************************)
(* Main window (main_window.py, app.py): the discovery threads started by  *)
(* find_engines and find_engines_forced, the EnginesFoundEvent they post   *)
(* and the primary thread's handling of it.  A dict is an object with an   *)
(* identity, so that two references to one dict can be told from two equal *)
(* dicts.                                                                  *)
(***************************************************************************)
\* a dict created by thread `by`
Dict(by, map) == [by |-> by, map |-> map]

\* {"(No engines found)": ""}
NoEnginesFound == "(No engines found)"
Placeholder == [k \in {NoEnginesFound} |-> <<>>]

\* the keys a dict may have, from the greatest string to the least
KeysDescending == <<"5.3", "5.1", "4.27", NoEnginesFound>>

\* sorted(engines.keys(), reverse=True)
sorted_reverse(keys) == SelectSeq(KeysDescending, LAMBDA k : k \in keys)

\* the orders in which a dict may list its keys
KeyOrders(keys) ==
    {order \in [1..Cardinality(keys) -> keys] :
        \A i, j \in 1..Cardinality(keys) : i # j => order[i] # order[j]}

\* the dict found_engines refers to once the find_all_engines call made in
\* this step has returned dict `new`: the attribute is assigned only with a
\* non-empty mapping
found_after(new) == IF lastCall'.result # EmptyMap THEN new ELSE found_ref

\* the tail of update_engines_list: the mapping is adopted and the list of
\* targets rebuilt from its keys
update_engines_list(o, map) ==
    /\ engine_paths' = o
    /\ target_version_combo' = sorted_reverse(DOMAIN map)

\* app.py main(): the finder is queried in the primary thread, the window is
\* built on the result, and MainWindow.__init__ starts a search when the
\* result is empty
Main ==
    /\ appPc = "start"
    /\ find_all_engines(FALSE, FALSE, FALSE, "none")
    /\ UNCHANGED <<config_file, fs, cfgDirWritable, cfgFileWritable, hashOrder>>
    /\ IF lastCall'.raised
       THEN /\ appPc' = "crashed"
            /\ UNCHANGED <<threads, objects, found_ref, engine_paths,
                           target_version_combo>>
       ELSE /\ appPc' = "running"
            /\ objects' = Append(objects, Dict(MainThread, lastCall'.result))
            /\ found_ref' = found_after(Len(objects) + 1)
            /\ engine_paths' = Len(objects) + 1
            /\ target_version_combo' \in KeyOrders(DOMAIN lastCall'.result)
            /\ threads' = IF lastCall'.result = EmptyMap
                          THEN [threads EXCEPT ![1] = [pc |-> "find", force |-> FALSE,
                                                       obj |-> 0]]
                          ELSE threads
    /\ stepBy' = MainThread
    /\ UNCHANGED <<eventQueue, posted>>
    /\ UNCHANGED <<builderVars, commandVars>>

\* the threads that have started and not yet created their dict
Searching == {w \in Workers : threads[w].pc = "find"}

\* MainWindow.find_engines_forced, from the rescan button of the advanced
\* options: the primary thread starts a discovery thread
find_engines_forced ==
    /\ appPc = "running"
    /\ Len(objects) + Cardinality(Searching) < MaxObjects
    /\ \E w \in Workers :
        /\ threads[w].pc = "idle"
        /\ threads' = [threads EXCEPT ![w] = [pc |-> "find", force |-> TRUE, obj |-> 0]]
    /\ stepBy' = MainThread
    /\ UNCHANGED <<appPc, objects, found_ref, eventQueue, engine_paths,
                   target_version_combo, posted>>
    /\ UNCHANGED <<finderVars, builderVars, commandVars>>

\* search_thread, first statement: the thread calls find_all_engines on the
\* finder the window holds; an exception ends the thread
search_thread_find(w) ==
    /\ threads[w].pc = "find"
    /\ Len(objects) < MaxObjects
    /\ find_all_engines(FALSE, threads[w].force, FALSE, "none")
    /\ UNCHANGED <<config_file, fs, cfgDirWritable, cfgFileWritable, hashOrder>>
    /\ IF lastCall'.raised
       THEN /\ threads' = [threads EXCEPT ![w] = NoThread]
            /\ UNCHANGED <<objects, found_ref>>
       ELSE /\ objects' = Append(objects, Dict(w, lastCall'.result))
            /\ found_ref' = found_after(Len(objects) + 1)
            /\ threads' = [threads EXCEPT ![w].pc = "post",
                                          ![w].obj = Len(objects) + 1]
    /\ stepBy' = w
    /\ UNCHANGED <<appPc, eventQueue, engine_paths, target_version_combo, posted>>
    /\ UNCHANGED <<builderVars, commandVars>>

\* QApplication.instance().postEvent(self, EnginesFoundEvent(engines))
postEvent(w) ==
    /\ eventQueue' = Append(eventQueue, threads[w].obj)
    /\ posted' = posted \cup {threads[w].obj}
    /\ UNCHANGED <<engine_paths, target_version_combo>>

\* search_thread, second statement; the thread ends
search_thread_post(w) ==
    /\ threads[w].pc = "post"
    /\ postEvent(w)
    /\ threads' = [threads EXCEPT ![w] = NoThread]
    /\ stepBy' = w
    /\ UNCHANGED <<appPc, objects, found_ref>>
    /\ UNCHANGED <<finderVars, builderVars, commandVars>>

\* the steps of the discovery threads
SearchThread == \E w \in Workers : search_thread_find(w) \/ search_thread_post(w)

\* MainWindow.event for an EnginesFoundEvent, up to the point where
\* update_engines_list either adopts the mapping or opens the manual entry
\* dialog
event ==
    /\ appPc = "running"
    /\ eventQueue # <<>>
    /\ eventQueue' = Tail(eventQueue)
    /\ LET o == Head(eventQueue)
       IN  IF objects[o].map # EmptyMap
           THEN /\ update_engines_list(o, objects[o].map)
                /\ appPc' = appPc
           ELSE /\ appPc' = "dialog"
                /\ UNCHANGED <<engine_paths, target_version_combo>>
    /\ stepBy' = MainThread
    /\ UNCHANGED <<threads, objects, found_ref, posted>>
    /\ UNCHANGED <<finderVars, builderVars, commandVars>>

\* the dialog's mapping (a copy of the existing one, edited) is saved and
\* adopted
adopt_manual_entries ==
    /\ Len(objects) < MaxObjects
    /\ \E m \in ManualEntries :
        /\ objects' = Append(objects, Dict(MainThread, m))
        /\ configStore' = save_config(m, FALSE).store
        /\ update_engines_list(Len(objects) + 1, m)
    /\ lastCall' = NoCall
    /\ stepBy' = MainThread
    /\ UNCHANGED <<config_file, fs, cfgDirWritable, cfgFileWritable, hashOrder,
                   found_engines>>
    /\ UNCHANGED <<threads, found_ref, eventQueue, posted>>
    /\ UNCHANGED <<builderVars, commandVars>>

\* update_engines_list, dialog.exec() returned true
ManualEntryAccepted ==
    /\ appPc = "dialog"
    /\ appPc' = "running"
    /\ adopt_manual_entries

\* update_engines_list, the dialog was cancelled: the placeholder when the
\* window has no engines, the existing mapping otherwise
ManualEntryCancelled ==
    /\ appPc = "dialog"
    /\ appPc' = "running"
    /\ IF objects[engine_paths].map = EmptyMap
       THEN /\ Len(objects) < MaxObjects
            /\ objects' = Append(objects, Dict(MainThread, Placeholder))
            /\ update_engines_list(Len(objects) + 1, Placeholder)
       ELSE /\ objects' = objects
            /\ update_engines_list(engine_paths, objects[engine_paths].map)
    /\ stepBy' = MainThread
    /\ UNCHANGED <<threads, found_ref, eventQueue, posted>>
    /\ UNCHANGED <<finderVars, builderVars, commandVars>>

\* AdvancedOptionsDialog.add_unreal_engine, accepted with a non-empty mapping
add_unreal_engine ==
    /\ appPc = "running"
    /\ appPc' = appPc
    /\ adopt_manual_entries

InitWindow ==
    /\ config_file = AppConfigFile
    /\ configStore \in {AbsentConfig, ConfigOf([v \in {"5.3"} |-> P53C]),
                        [kind |-> "array", engines |-> EmptyMap]}
    /\ fs \in {[p \in Paths |-> {}],
               [p \in Paths |-> IF p = P427 THEN FullInstall ELSE {}],
               [p \in Paths |-> IF p = PUnreal THEN {} ELSE FullInstall]}
    /\ cfgDirWritable = TRUE
    /\ cfgFileWritable = TRUE
    /\ hashOrder = <<P53C, P53D, P427, PUnreal>>
    /\ found_engines = EmptyMap
    /\ lastCall = NoCall
    /\ IdleBuilder
    /\ IdleCommand
    /\ appPc = "start"
    /\ threads = [w \in Workers |-> NoThread]
    /\ objects = <<>>
    /\ found_ref = 0
    /\ eventQueue = <<>>
    /\ engine_paths = 0
    /\ target_version_combo = <<>>
    /\ posted = {}
    /\ stepBy = MainThread

NextWindow ==
    \/ Main
    \/ find_engines_forced
    \/ SearchThread
    \/ event
    \/ ManualEntryAccepted
    \/ ManualEntryCancelled
    \/ add_unreal_engine

SpecWindow == InitWindow /\ [][NextWindow]_vars

(***************************************************************************)
(* Properties of the Discovery Engine                                      *)
(***************************************************************************)
\* the step just made was a find_all_engines call that returned
CallMade == lastCall.op = "find" /\ ~lastCall.raised

\* the call just made ran a fresh scan (it queried at least the first source)
FreshScan == CallMade /\ lastCall.queried # <<>>

\* the config entries that validate in the current filesystem
Surviving(engines) ==
    {v \in DOMAIN engines : PathExists(engines[v]) /\ is_valid_engine_path(engines[v])}

\* C1: a call without force_rescan that finds a non-empty mapping in the
\* config store with at least one entry that exists and validates returns
\* exactly the entries that validate, and queries none of the three sources.
C1_CachedResultIsSurvivingSubset ==
    (/\ CallMade
     /\ ~lastCall.force
     /\ lastCall.cfgBefore.kind = "object"
     /\ Surviving(lastCall.cfgBefore.engines) # {})
    => (/\ DOMAIN lastCall.result = Surviving(lastCall.cfgBefore.engines)
        /\ \A v \in DOMAIN lastCall.result :
              lastCall.result[v] = lastCall.cfgBefore.engines[v]
        /\ lastCall.queried = <<>>)

\* a cached call that dropped one stale entry and kept another
C1_Witness ==
    /\ CallMade
    /\ ~lastCall.force
    /\ lastCall.queried = <<>>
    /\ lastCall.result # EmptyMap
    /\ DOMAIN lastCall.result # DOMAIN lastCall.cfgBefore.engines

\* C2: after a fresh scan that returned a non-empty mapping M the config
\* store holds exactly M, for every prior content and every configured config
\* path.  Stated for the case in which the directory of the config file and
\* the file itself are writable and the write does not fail.
C2_FreshScanPersists ==
    (/\ FreshScan
     /\ lastCall.result # EmptyMap
     /\ cfgDirWritable /\ cfgFileWritable /\ ~lastCall.ioError)
    => configStore = ConfigOf(lastCall.result)

\* C3: a discovery pass that ends with an empty result returns the empty
\* mapping and leaves the config store as it was before the call.
C3_EmptyResultKeepsStore ==
    (CallMade /\ lastCall.result = EmptyMap)
    => (FreshScan /\ configStore = lastCall.cfgBefore)

\* a scan over a store with entries found a candidate without a version and
\* nothing else
C3_Witness ==
    /\ FreshScan
    /\ lastCall.result = EmptyMap
    /\ lastCall.cfgBefore.kind = "object"
    /\ lastCall.cfgBefore.engines # EmptyMap
    /\ is_valid_engine_path(PUnreal)
    /\ configStore = lastCall.cfgBefore

\* C4: a mapping written to the config store by a fresh scan is returned
\* unchanged by a call without force_rescan that follows immediately, provided
\* all its paths still exist and validate.
C4_RoundTrip ==
    (/\ CallMade
     /\ ~lastCall.force
     /\ lastCall.prevSaved # EmptyMap
     /\ Surviving(lastCall.prevSaved) = DOMAIN lastCall.prevSaved)
    => lastCall.result = lastCall.prevSaved

\* a mapping of two installations was written and then reloaded
C4_Witness ==
    /\ CallMade
    /\ ~lastCall.force
    /\ Cardinality(DOMAIN lastCall.prevSaved) >= 2
    /\ lastCall.result = lastCall.prevSaved
    /\ lastCall.queried = <<>>

\* C5: a call with force_rescan never reads the config store: it queries the
\* sources, and two forced calls over the same registry, environment and
\* filesystem return the same mapping whatever the config store held.
C5_ForcedScanIgnoresStore ==
    [][(lastCall'.op = "find" /\ lastCall'.force)
       => (/\ ~lastCall'.cfgRead
           /\ lastCall'.queried # <<>>
           /\ (lastCall.op = "find" /\ lastCall.force
                 /\ lastCall.stop = lastCall'.stop)
              => lastCall'.result = lastCall.result)]_vars

\* a forced call made over a store whose valid entries differ from the result
C5_Witness ==
    /\ CallMade
    /\ lastCall.force
    /\ lastCall.cfgBefore.kind = "object"
    /\ Surviving(lastCall.cfgBefore.engines) # {}
    /\ lastCall.result # lastCall.cfgBefore.engines
    /\ lastCall.result # EmptyMap

(***************************************************************************)
(* Properties of the Build Orchestrator                                    *)
(***************************************************************************)
IsFinish(e) == e.kind = "build_finished"

\* the normal-completion event: build_finished emitted by _process_finished
IsNormalFinish(e) == IsFinish(e) /\ e.src = "finished"

IsCancelFinish(e) == IsFinish(e) /\ e.src = "cancel"

\* a log or progress event produced from the output of the process
IsOutput(e) == e.src \in {"stdout", "stderr"}

\* C6: at most one external build process is alive at any time.
C6_SingleBuildProcess == Cardinality(osAlive) <= 1

\* a second build runs after the first one has ended
C6_Witness == process = 2 /\ osAlive = {2} /\ button = "abort"

\* C7: once cancel_build has emitted the cancellation of a build, no
\* normal-completion event is emitted for that build: the cancellation event
\* is the only terminal event of a cancelled build.
C7_CancelPreemptsCompletion ==
    \A i, j \in DOMAIN events :
        (IsCancelFinish(events[i]) /\ events[j].build = events[i].build)
        => ~IsNormalFinish(events[j])

\* C8: build_started precedes every event produced from the output of the
\* process, and the terminal build_finished event is the last event of its
\* build.
C8_StartedFirstFinishedLast ==
    \A i, j \in DOMAIN events :
        (events[i].build # 0 /\ events[j].build = events[i].build)
        => /\ (events[i].kind = "build_started" /\ IsOutput(events[j])) => i < j
           /\ IsFinish(events[i]) => j <= i

\* C9: cancel_build spawns each kill command and waits for it, then attempts
\* the removal of the output directory, then emits the cancellation; the
\* removal never starts while a kill command has not returned.
CancelOrder ==
    <<"taskkill", "wait", "taskkill", "wait", "taskkill", "wait", "rmtree",
      "build_finished">>

C9_KillWaitCleanupEmit ==
    /\ cancelPc \in {"cleanup", "emit"} => killsPending = {}
    /\ Len(cancelLog) <= Len(CancelOrder)
    /\ \A i \in DOMAIN cancelLog :
          \/ cancelLog[i] = CancelOrder[i]
          \/ i = 7 /\ cancelLog[i] = "no_dir"
    /\ (\E i \in DOMAIN cancelLog : cancelLog[i] = "rmtree") => killsPending = {}

\* a running build was cancelled, its directory removed, the event emitted
C9_Witness ==
    /\ cancelLog = CancelOrder
    /\ lastRet = "True"
    /\ output_folder \notin dirs
    /\ osAlive = {}

\* no build process is running, as the orchestrator sees it: no handle, or a
\* handle whose process has finished, or a build whose cancellation was emitted
NoBuildRunning ==
    \/ process = 0
    \/ procState = "NotRunning"
    \/ \E i \in DOMAIN events :
          IsCancelFinish(events[i]) /\ events[i].build = process

C11_HandleClearedAfterTerminal ==
    (events # <<>> /\ IsFinish(events[Len(events)]) /\ ~InCancel) => process = 0

(***************************************************************************)
(* Properties of command construction, output classification and           *)
(* descriptor reading                                                      *)
(***************************************************************************)
BuildCalled == lastOp.op = "build_plugin"

CommandShown == lastOp.op = "get_command_string"

\* C12: build_plugin checks that the descriptor exists, then that the parent
\* of the output folder is writable (creating the folder), then that the
\* command can be constructed; at the first check that fails it logs one
\* error, returns False, emits no build_started and starts no process, and
\* the checks after it have had no effect; it returns True only when every
\* check passed, build_started was emitted and the start was requested.
C12_PreconditionsInOrder ==
    BuildCalled =>
        LET f == pbFields
            before == lastOp.before
            descriptor_exists == os_path_exists(f.source_plugin_path, before)
            parent_writable ==
                os_access_w(os_path_dirname(f.output_folder), before)
            created == lastOp.mkdirOk
            constructible ==
                /\ f.target_engine_path # <<>>
                /\ os_path_exists(uat_path(f.target_engine_path), before)
            one_error ==
                /\ Len(lastOp.signals) = 1
                /\ lastOp.signals[1].sig = "log_message"
                /\ lastOp.signals[1].level = "ERROR"
        IN  /\ lastOp.ret = "True"
               <=> (descriptor_exists /\ parent_writable /\ created /\ constructible)
            /\ lastOp.ret \in {"True", "False"}
            /\ lastOp.ret = "False"
               => /\ one_error
                  /\ lastOp.program = <<>>
                  /\ lastOp.arguments = <<>>
            /\ ~descriptor_exists
               => /\ lastOp.signals[1].msg = "error_plugin_not_found"
                  /\ existing = before
            /\ (descriptor_exists /\ ~parent_writable)
               => /\ lastOp.signals[1].msg = "no_permission"
                  /\ existing = before
            /\ (descriptor_exists /\ parent_writable /\ ~created)
               => lastOp.signals[1].msg = "makedirs_failed"
            /\ (descriptor_exists /\ parent_writable /\ created /\ ~constructible)
               => /\ lastOp.signals[1].msg \in {"not_all_parameters_set",
                                                "help_error_uat"}
                  /\ Segments(f.output_folder) \in existing
            /\ lastOp.ret = "True"
               => /\ lastOp.signals[Len(lastOp.signals)] = BuildStarted
                  /\ \A i \in DOMAIN lastOp.signals :
                        lastOp.signals[i].level # "ERROR"
                  /\ lastOp.program = uat_path(f.target_engine_path)
                  /\ Segments(f.output_folder) \in existing

\* the third check failed after the output folder had been created
C12_Witness ==
    /\ BuildCalled
    /\ lastOp.ret = "False"
    /\ lastOp.signals[1].msg = "help_error_uat"
    /\ Segments(pbFields.output_folder) \in existing
    /\ Segments(pbFields.output_folder) \notin lastOp.before

\* an option given as process arguments with its own key and value: a flag
\* as -Key, a valued option as -Key=value, an omitted option as nothing
RECURSIVE OwnArguments(_)
OwnArguments(params) ==
    IF params = <<>> THEN <<>>
    ELSE LET o == Head(params)
         IN  (IF o.value = PyTrue THEN << <<"-", o.key>> >>
              ELSE IF o.value \in {PyFalse, PyNone, PyStr(<<>>)} THEN <<>>
              ELSE << <<"-", o.key, "=">> \o o.value.s >>)
             \o OwnArguments(Tail(params))

\* C13: the process is started with the command of get_build_command: the
\* program is its element 0, and after BuildPlugin, the plugin and the
\* package, the arguments are the options of the map in order, each with its
\* own key and value.
C13_ArgumentsCarryOwnKeyAndValue ==
    (BuildCalled /\ lastOp.ret = "True") =>
        /\ lastOp.program = lastOp.command[1]
        /\ lastOp.arguments[1] = lastOp.command[2]
        /\ SubSeq(lastOp.arguments, 4, Len(lastOp.arguments))
              = OwnArguments(pbFields.additional_params)

\* C14: get_build_command returns None and logs one error exactly when the
\* descriptor path, the output path or the target path is unset or empty or
\* RunUAT.bat does not exist under the target; otherwise it logs nothing and
\* the command begins with the entry script, BuildPlugin, -plugin, the
\* normalised descriptor path, -package, the normalised output path.
C14_CommandOrAbsence ==
    CommandShown =>
        LET f == pbFields
            unset == \/ f.source_plugin_path = <<>>
                     \/ f.output_folder = <<>>
                     \/ f.target_engine_path = <<>>
            script == uat_path(f.target_engine_path)
        IN  IF unset \/ ~os_path_exists(script, existing)
            THEN /\ lastOp.command = NoCommand
                 /\ Len(lastOp.signals) = 1
                 /\ lastOp.signals[1].level = "ERROR"
            ELSE /\ lastOp.signals = <<>>
                 /\ Len(lastOp.command) >= 6
                 /\ SubSeq(lastOp.command, 1, 6)
                       = <<script, <<"BuildPlugin">>, <<"-", "plugin">>,
                           normpath(f.source_plugin_path), <<"-", "package">>,
                           normpath(f.output_folder)>>

\* every path is set and the entry script is missing under the target
C14_Witness ==
    /\ CommandShown
    /\ lastOp.command = NoCommand
    /\ pbFields.source_plugin_path # <<>>
    /\ pbFields.output_folder # <<>>
    /\ pbFields.target_engine_path = Engine53
    /\ lastOp.signals = <<Log("ERROR", "help_error_uat")>>

\* the tokens an option map stands for: -Key for true, -Key and the value for
\* a non-empty string, nothing for false, the empty string and null
RECURSIVE EncodedOptions(_)
EncodedOptions(params) ==
    IF params = <<>> THEN <<>>
    ELSE LET o == Head(params)
         IN  (CASE o.value = PyTrue -> << <<"-", o.key>> >>
                [] o.value = PyFalse -> <<>>
                [] o.value = PyNone -> <<>>
                [] o.value = PyStr(<<>>) -> <<>>
                [] OTHER -> << <<"-", o.key>>, o.value.s >>)
             \o EncodedOptions(Tail(params))

\* C15: after its six leading tokens the command holds, for the options of
\* the map in insertion order, -Key for a value of true, -Key and the value
\* for a non-empty string, and nothing for false, the empty string or null;
\* building it again from the same fields gives the same sequence.
C15_OptionEncoding ==
    (CommandShown /\ lastOp.command # NoCommand) =>
        /\ SubSeq(lastOp.command, 7, Len(lastOp.command))
              = EncodedOptions(pbFields.additional_params)
        /\ get_build_command(pbFields, existing).command = lastOp.command

\* a map whose first option is omitted (null) and whose second has a value
C15_Witness ==
    /\ CommandShown
    /\ pbFields.additional_params
          = <<Opt("Strict", PyNone), Opt("TargetPlatforms", PyStr(<<"Win64">>))>>
    /\ Len(lastOp.command) = 8
    /\ lastOp.command[8] = <<"Win64">>

\* the words of a text, split at its spaces
RECURSIVE SplitSpaces(_, _)
SplitSpaces(s, word) ==
    IF s = <<>> THEN <<word>>
    ELSE IF Head(s) = " " THEN <<word>> \o SplitSpaces(Tail(s), <<>>)
    ELSE SplitSpaces(Tail(s), Append(word, Head(s)))

\* an option as displayed with its own key and value: a flag as -Key, a
\* valued option as -Key=value (these values name no path, so unquoted)
RECURSIVE OwnDisplay(_)
OwnDisplay(params) ==
    IF params = <<>> THEN <<>>
    ELSE LET o == Head(params)
         IN  (IF o.value = PyTrue THEN << <<"-", o.key>> >>
              ELSE IF o.value \in {PyFalse, PyNone, PyStr(<<>>)} THEN <<>>
              ELSE << <<"-", o.key>> \o <<"=">> \o o.value.s >>)
             \o OwnDisplay(Tail(params))

\* C16: the text of get_command_string shows, after the entry script,
\* BuildPlugin, the plugin and the package, every option of the command as
\* its own word: a flag as -Key and a valued option as -Key=value, no word
\* joining the key of one option to the key of another.
C16_DisplayCarriesOwnKeyAndValue ==
    (CommandShown /\ lastOp.text # <<>>) =>
        LET words == SplitSpaces(lastOp.text, <<>>)
        IN  /\ words[2] = <<"BuildPlugin">>
            /\ SubSeq(words, 5, Len(words)) = OwnDisplay(pbFields.additional_params)

NonBlank(data) == SelectSeq(data, LAMBDA l : ~l.blank)

\* whether a line holds, in any letter case, one of the keywords K
HasKeyword(l, K) == \E w \in l.words : KeywordIn(w) \in K

\* the level of a line by the precedence ERROR > WARNING > SUCCESS > INFO
LevelByPrecedence(l) ==
    IF HasKeyword(l, {"error", "oshibka", "failed"}) THEN "ERROR"
    ELSE IF HasKeyword(l, {"warning", "preduprezhdenie"}) THEN "WARNING"
    ELSE IF HasKeyword(l, {"success", "uspeshno", "completed"}) THEN "SUCCESS"
    ELSE "INFO"

LogSignals(signals) == SelectSeq(signals, LAMBDA e : e.sig = "log_message")

\* C17: every non-blank stdout line gives exactly one log event, in the
\* order of the lines, whose level is ERROR when the line holds an error
\* keyword, else WARNING when it holds a warning keyword, else SUCCESS when
\* it holds a success keyword, else INFO (keywords in any letter case);
\* every non-blank stderr line gives exactly one ERROR log event.
C17_LinesClassifiedByPrecedence ==
    /\ lastOp.op = "_process_stdout"
       => LET lines == NonBlank(lastOp.data)
              logs == LogSignals(lastOp.signals)
          IN  /\ Len(logs) = Len(lines)
              /\ \A i \in DOMAIN lines :
                    logs[i].level = LevelByPrecedence(lines[i])
    /\ lastOp.op = "_process_stderr"
       => lastOp.signals
             = [i \in 1..Len(NonBlank(lastOp.data)) |-> Log("ERROR", "line")]

\* a line with an error and a warning keyword was logged as ERROR, after a
\* line with a warning and a success keyword logged as WARNING
C17_Witness ==
    /\ lastOp.op = "_process_stdout"
    /\ Len(lastOp.data) = 2
    /\ lastOp.data[1].words = {"Warning", "completed"}
    /\ lastOp.data[2].words = {"ERROR", "Warning"}
    /\ lastOp.data[1].percent = NoPercent
    /\ lastOp.signals[1].level = "WARNING"
    /\ lastOp.signals[2].level = "ERROR"

\* the events of a line: its log event, then its progress event when the
\* line holds a <digits>% token
RECURSIVE LineEvents(_)
LineEvents(lines) ==
    IF lines = <<>> THEN <<>>
    ELSE LET l == Head(lines)
         IN  <<Log(LevelByPrecedence(l), "line")>>
             \o (IF l.percent # NoPercent THEN <<Progress(l.percent)>> ELSE <<>>)
             \o LineEvents(Tail(lines))

\* C18: a stdout line with a <digits>% token gives exactly one progress
\* event, right after the log event of that line and before the log event of
\* the next line, with the number of the token, which is a percentage between
\* 0 and 100; a line without a token gives no progress event.
C18_ProgressPerPercentLine ==
    lastOp.op = "_process_stdout" =>
        /\ lastOp.signals = LineEvents(NonBlank(lastOp.data))
        /\ \A i \in DOMAIN lastOp.signals :
              lastOp.signals[i].sig = "build_progress"
              => lastOp.signals[i].msg \in {ToString(n) : n \in 0..100}

\* C19: find_all_engines never raises: whatever the content of the config
\* file, the call returns a mapping.
C19_NeverRaises == lastCall.op = "find" => ~lastCall.raised

\* the recognised keys and the attribute of the record each one fills
AttributeOf(key) ==
    CASE key = "FriendlyName" -> "name"
      [] key = "Version" -> "version"
      [] key = "Description" -> "description"
      [] key = "Category" -> "category"
      [] key = "Modules" -> "modules"
      [] key = "EngineVersion" -> "engine_version"
      [] key = "MarketplaceURL" -> "marketplace_url"
      [] OTHER -> "supported_platforms"

\* the empty string, zero and the empty list
EmptyValues == {PyStr(<<>>), PyInt("0"), PyList(<<>>)}

\* a descriptor that is a JSON object whose Modules, if any, is a list
WellFormed(d) ==
    /\ d.kind = "object"
    /\ "Modules" \in DOMAIN d.obj => d.obj["Modules"].t = "list"

InfoRead == lastOp.op = "extract_plugin_info"

\* on malformed content: None is returned and one error is logged
MalformedGivesNone ==
    (InfoRead /\ ~WellFormed(lastOp.descriptor))
    => /\ lastOp.info = NoInfo
       /\ lastOp.signals = <<Log("ERROR", "Error reading plugin information")>>

\* C20 as stated: every recognised key that is missing from a well-formed
\* descriptor leaves its attribute at the empty string, zero or the empty
\* list; is_engine_plugin is true exactly when EngineVersion is there with a
\* non-empty version; malformed content gives None and one error log.
C20_MissingKeysDefaultEmpty ==
    /\ MalformedGivesNone
    /\ (InfoRead /\ WellFormed(lastOp.descriptor))
       => LET obj == lastOp.descriptor.obj
          IN  /\ lastOp.signals = <<>>
              /\ DOMAIN lastOp.info # {}
              /\ \A k \in RecognisedKeys \ DOMAIN obj :
                    lastOp.info[AttributeOf(k)] \in EmptyValues
              /\ lastOp.info["is_engine_plugin"] = PyTrue
                 <=> (/\ "EngineVersion" \in DOMAIN obj
                      /\ obj["EngineVersion"] \notin {PyStr(<<>>), PyNone})

\* C20 amended: a missing FriendlyName leaves name at "Unknown Plugin" and
\* every other missing recognised key leaves its attribute at the empty
\* string, zero or the empty list; is_engine_plugin is true exactly when
\* EngineVersion is there with any value other than the empty string (null
\* included); malformed content gives None and one error log.
C20_MissingKeysDefault ==
    /\ MalformedGivesNone
    /\ (InfoRead /\ WellFormed(lastOp.descriptor))
       => LET obj == lastOp.descriptor.obj
          IN  /\ lastOp.signals = <<>>
              /\ DOMAIN lastOp.info # {}
              /\ "FriendlyName" \notin DOMAIN obj
                 => lastOp.info["name"] = PyStr(<<"Unknown Plugin">>)
              /\ \A k \in RecognisedKeys \ (DOMAIN obj \cup {"FriendlyName"}) :
                    lastOp.info[AttributeOf(k)] \in EmptyValues
              /\ \A k \in RecognisedKeys \cap DOMAIN obj :
                    k # "Modules" => lastOp.info[AttributeOf(k)] = obj[k]
              /\ lastOp.info["is_engine_plugin"] = PyTrue
                 <=> (/\ "EngineVersion" \in DOMAIN obj
                      /\ obj["EngineVersion"] # PyStr(<<>>))

\* a descriptor with no recognised key at all was read
C20_Witness ==
    /\ InfoRead
    /\ lastOp.descriptor.kind = "object"
    /\ DOMAIN lastOp.descriptor.obj = {}
    /\ lastOp.info["name"] = PyStr(<<"Unknown Plugin">>)
    /\ lastOp.info["version"] = PyInt("0")
    /\ lastOp.info["is_engine_plugin"] = PyFalse

(***************************************************************************)
(* Properties of the sources (SpecScan, SpecValidity)                      *)
(***************************************************************************)
AllSources == <<"registry", "env", "standard">>

\* the call just made has handed candidates to _process_found_paths
Processed == FreshScan /\ lastCall.processed # <<>>

\* a WARNING event that names the path
WarnedAbout(p) ==
    \E i \in DOMAIN lastCall.scanLogs :
        /\ lastCall.scanLogs[i].level = "WARNING"
        /\ lastCall.scanLogs[i].about = p

\* C21: in a fresh scan every candidate for which extract_version_from_path
\* returns None is left out of the result and a WARNING event is logged for
\* it, and every other candidate's version is in the result.
C21_DroppedCandidatesAreWarned ==
    Processed =>
        \A p \in Range(lastCall.processed) :
            IF extract_version_from_path(p) = None
            THEN /\ \A v \in DOMAIN lastCall.result : lastCall.result[v] # p
                 /\ WarnedAbout(p)
            ELSE extract_version_from_path(p) \in DOMAIN lastCall.result

\* the hits of a source in the call just made
HitsOf(source) ==
    CASE source = "registry" -> find_unreal_in_registry
      [] source = "env" -> find_unreal_in_env_vars
      [] source = "standard" -> standard_hits(lastCall.fault)

\* the sources with a hit, in the order registry, environment, standard
SourcesWithHit == SelectSeq(AllSources, LAMBDA src : HitsOf(src) # <<>>)

\* the position of a source in the fixed order
SourceIndex(source) == CHOOSE i \in 1..3 : AllSources[i] = source

\* C22: a fresh scan queries the sources in the order registry, environment
\* variables, standard paths; with stop_on_first the sources after the first
\* one with a hit are not queried and the result is built from that source's
\* first hit only; without it all three are queried.
C22_FixedOrderAndShortCircuit ==
    FreshScan =>
        IF lastCall.stop /\ SourcesWithHit # <<>>
        THEN LET first == SourcesWithHit[1]
             IN  /\ lastCall.queried = SubSeq(AllSources, 1, SourceIndex(first))
                 /\ lastCall.processed = <<HitsOf(first)[1]>>
                 /\ lastCall.result = ProcessPaths(<<HitsOf(first)[1]>>, EmptyMap)
        ELSE lastCall.queried = AllSources

\* a stop_on_first scan that stopped at the environment variables
C22_Witness ==
    /\ FreshScan
    /\ lastCall.stop
    /\ lastCall.queried = <<"registry", "env">>
    /\ find_unreal_in_standard_paths # <<>>
    /\ lastCall.result # EmptyMap

\* C23: a failure inside one discovery source is confined to it: the call
\* does not raise, nothing above a warning is logged, and when no hit stops the
\* scan the remaining sources are still queried.
C23_SourceFailureIsConfined ==
    (lastCall.op = "find" /\ lastCall.fault # "none") =>
        /\ ~lastCall.raised
        /\ \A i \in DOMAIN lastCall.scanLogs : lastCall.scanLogs[i].level # "ERROR"
        /\ (~lastCall.stop => lastCall.queried = AllSources)

\* the path is spelled with forward slashes only
ForwardSlashesOnly(text) == \A i \in DOMAIN text : text[i] # "\\"

\* C27: every path stored by a discovery pass is the installation root (the
\* directory that contains Engine) spelled with forward slashes only,
\* whichever source produced the candidate.
C27_StoredPathsCanonical ==
    FreshScan =>
        \A v \in DOMAIN lastCall.stored :
            /\ EngineDirExists(Segments(lastCall.stored[v]))
            /\ Segments(lastCall.stored[v]) = lastCall.result[v]
            /\ ForwardSlashesOnly(lastCall.stored[v])

\* what the claim requires of an installation's items
Complete(items) ==
    /\ RunUAT \in items
    /\ UnrealEditor \in items \/ UE4Editor \in items
    /\ ContentDir \in items
    /\ PluginsDir \in items
    /\ SourceDir \in items

\* the registry source has reported the path as an installation
ReportedByRegistry(p) ==
    \E i \in DOMAIN lastCall.scanLogs :
        lastCall.scanLogs[i] = FinderLog("SUCCESS", "log_engine_found_registry", p)

\* C26: is_valid_engine_path(P) is true exactly when the entry script, at
\* least one of the two editor executables and the three directories
\* Engine/Content, Engine/Plugins and Engine/Source are present, for every
\* combination of the six items; a scan reports P exactly in that case.
C26_ValidIffComplete ==
    /\ \A p \in Paths : is_valid_engine_path(p) <=> Complete(fs[p])
    /\ FreshScan => (ReportedByRegistry(P427) <=> Complete(fs[P427]))

\* an installation with the UE4 editor only has been reported by a scan
C26_Witness ==
    /\ FreshScan
    /\ fs[P427] = {RunUAT, UE4Editor, ContentDir, PluginsDir, SourceDir}
    /\ ReportedByRegistry(P427)


(***************************************************************************)
(* Properties of the cancellation cleanup and of the build's termination   *)
(* (SpecBuilder, SpecBuilderLive)                                          *)
(***************************************************************************)
\* cancel_build has just attempted the removal and the folder is still there
RemovalFailed ==
    /\ cancelPc = "emit"
    /\ cancelLog # <<>>
    /\ cancelLog[Len(cancelLog)] = "rmtree"
    /\ output_folder \in dirs

\* C25: when the removal of the output directory fails during cancel_build,
\* the failure is logged as a WARNING event and no success message is logged
\* for the removal; cancel_build still emits the cancellation event and
\* returns true.
C25_FailedRemovalIsWarned ==
    /\ RemovalFailed =>
          /\ events # <<>>
          /\ events[Len(events)].src = "cancel"
          /\ events[Len(events)].info = "WARNING"
    /\ (lastRet = "True" /\ cancelLog # <<>>) =>
          cancelLog[Len(cancelLog)] = "build_finished"

\* build_started has been emitted for build b
Started(b) ==
    \E i \in DOMAIN events : events[i].build = b /\ events[i].kind = "build_started"

\* a terminal build_finished has been emitted for build b
Finished(b) == \E i \in DOMAIN events : events[i].build = b /\ IsFinish(events[i])

\* C28: every build for which build_started was emitted eventually emits a
\* terminal build_finished, and the build button, switched to abort mode by
\* build_started, eventually returns to build mode, given that the external
\* process eventually exits or fails to spawn.
C28_StartedBuildFinishes ==
    /\ \A b \in 1..MaxBuilds : (process = b /\ Started(b)) ~> Finished(b)
    /\ (button = "abort") ~> (button = "build")

\* C29: the directory removed by cancel_build is the output directory passed
\* to the build_plugin call that launched the running process, whatever was
\* done in between, a show_command during the build included.
C29_CancelRemovesLaunchedFolder ==
    [][(cancelPc = "cleanup" /\ cancelPc' = "emit")
          => /\ dirs \ dirs' \subseteq {launchedFolder}
             /\ output_folder = launchedFolder]_vars

\* C30: the output path computed by get_output_path is never the directory
\* that contains the plugin descriptor, in parent-directory mode and in
\* custom-directory mode alike
C30_OutputIsNotPluginDir ==
    (lastOp.op = "get_output_path" /\ lastOp.plugin # <<>>)
        => os_path_normpath(lastOp.output) # os_path_normpath(os_path_dirname(lastOp.plugin))

(***************************************************************************)
(* Properties of the discovery threads (SpecWindow)                        *)
(***************************************************************************)
\* the step changes the window's engine mapping or its list of targets
WindowChanges ==
    \/ engine_paths' # engine_paths
    \/ target_version_combo' # target_version_combo

\* the step is the primary thread's handling of the event at the head of the
\* queue
HandlesEvent ==
    /\ stepBy' = MainThread
    /\ eventQueue # <<>>
    /\ eventQueue' = Tail(eventQueue)

\* the step of a discovery thread leaves alone the state it shares with the
\* primary thread: the finder's found_engines, the config store, the window's
\* mapping and list
SharedStateUntouched ==
    /\ found_engines' = found_engines
    /\ found_ref' = found_ref
    /\ configStore' = configStore
    /\ ~WindowChanges

\* C24: a discovery thread never changes UI or core state itself: the
\* window's engine mapping and its list of targets change only in steps of
\* the primary thread, a dict created by a discovery thread becomes the
\* window's mapping only in the primary thread's handling of the event that
\* carries it, a dict is posted once, freshly created and referred to by no
\* field of the window, and no step of a discovery thread changes a dict that
\* has been posted
C24_WorkerNeverMutatesSharedState ==
    [][/\ stepBy' # MainThread => SharedStateUntouched
       /\ WindowChanges => stepBy' = MainThread
       /\ (engine_paths' # engine_paths /\ objects'[engine_paths'].by # MainThread)
            => (HandlesEvent /\ engine_paths' = Head(eventQueue))
       /\ \A o \in posted' \ posted :
            /\ o # engine_paths
            /\ o \notin Range(eventQueue)
            /\ objects[o].by = stepBy'
       /\ stepBy' # MainThread =>
            \A o \in posted : objects'[o] = objects[o]]_vars

====
